---- MODULE Spec2Model ----
(***************************************************************************)
(* Client-side prediction and snapshot reconciliation of dd-pg.            *)
(*                                                                         *)
(* Its components are modelled, each under its own specifications:         *)
(*   SpecNet      the client's handling of server messages                 *)
(*                (Game::on_msg and NetworkLogic::on_msg)                  *)
(*   SpecAck      input acknowledgements carried by a snapshot             *)
(*   SpecStore    the store of snapshots a later diff is resolved against  *)
(*   SpecReplay   the replay of the predicted ticks after a snapshot       *)
(*   SpecVariant  the client's progress from Waiting to Active             *)
(*   SpecState    the dual-copy game state (GameState: tick, pred_tick,    *)
(*                snapshots for prediction)                                *)
(*   SpecPlayers  the players of the game state: joining and leaving a     *)
(*                stage, dying, respawning, spectating and dropping        *)
(*   SpecInfo     the character infos of the players and their versions    *)
(*   SpecEvents   the event queue of the game state (tick, events_for,     *)
(*                clear_events)                                            *)
(*   SpecRecorder the demo recorder (add_snapshot, add_event, drop) and    *)
(*                its writer thread                                        *)
(*   SpecRecorderLive  SpecRecorder with a fair writer thread              *)
(*   SpecAdd      the entries add_snapshot and add_event hand to the       *)
(*                writer thread                                            *)
(*   SpecWriter   the writer thread given any sequence of chunks           *)
(*   SpecChunk    write_chunk and read_chunks of the demo file             *)
(*   SpecViewer   the demo viewer: loading, frames and playback events     *)
(*   SpecPreview  the demo viewer's previews and exports                   *)
(*   SpecProfiles the account profiles' signed certificate and the task    *)
(*                that fetches it (SpecProfilesLive: with fair tasks)      *)
(*   SpecGenerator  the queue of the game's network messages and events    *)
(* A specification leaves the state of the other components as it is; a    *)
(* panic ends the process.                                                 *)
(***************************************************************************)
EXTENDS Integers, Sequences, FiniteSets, TLC

\* ------------------------------------------------------------------ bounds
\* Snapshot and input ids a peer may send are drawn from 0..MaxSnapId.
MaxSnapId == 1
\* Monotonic ticks a peer may report are drawn from 0..MaxTick.
MaxTick == 4
\* Ticks per second of the session (game_tick_speed(), a NonZeroU64 of the mod).
TicksPerSecond == 1

\* Entity ids the id generator may hand out are 0..MaxEntityId.
MaxEntityId == 3
\* A stage is simulated for at most MaxStageTick ticks.
MaxStageTick == 2
\* Character infos and their versions are 1..MaxInfoVersion.
MaxInfoVersion == 2
\* Event ids events_for may hand out are 0..MaxEventId-1.
MaxEventId == 2
\* The header of a demo and its extension take HeaderBytes bytes.
HeaderBytes == 2
\* Input packets are sent with the ids 0..MaxInputId.
MaxInputId == 2
\* The snapshot store is filled in order until StoreSlack entries are free.
StoreSlack == 1
\* Snapshot ids then go up to SnapStorageCap + StoreIdsOver.
StoreIdsOver == 1

\* The recorder is given the snapshots of consecutive ticks up to tick
\* DATA_PER_CHUNK_TO_WRITE - RecFree; after that ticks may jump or arrive
\* late.
RecFree == 1
\* Recorded ticks stay below DATA_PER_CHUNK_TO_WRITE + 3 seconds + RecOver.
RecOver == 3
\* The first recorded tick is one of 0..RecStart.
RecStart == 1
\* The recorder is dropped while it holds at most RecEarly snapshots, or
\* once ticks arrive freely; events arrive at the same times.
RecEarly == 2
\* Events are recorded for the ticks 0..RecEvents-1.
RecEvents == 2
\* Chunks given to the writer directly have ticks in 0..MaxChunkTick,
MaxChunkTick == 3
\* and there are at most MaxChunks of them.
MaxChunks == 2
\* A chunk that is written and read back has its ticks in 0..MaxRecordTick,
MaxRecordTick == 2
\* At most MaxArrivals messages and events arrive at the event generator.
MaxArrivals == 3
\* signed_cert_and_key_pair is called at most MaxCalls times.
MaxCalls == 3
\* A dead player respawns after RespawnTicks ticks.
RespawnTicks == 2
\* Entries are added for the ticks 0..MaxAddTick,
MaxAddTick == 4
\* to maps of at most MaxHeld snapshots and events together,
MaxHeld == 3
\* payloads of at most MaxPayloadLen bytes,
MaxPayloadLen == 1
\* and bytes in 0..MaxByte.
MaxByte == 1
\* The demo that is viewed has ViewChunks chunks of snapshots,
ViewChunks == 3
\* of ViewChunkLen snapshots each, one per tick,
ViewChunkLen == 2
\* from tick ViewStart on,
ViewStart == 1
\* and events from tick ViewEventsStart on, recorded before the first
\* snapshot was.
ViewEventsStart == 0
\* A frame advances the playback by at most ViewAdvance ticks,
ViewAdvance == 2
\* and single steps take it at most ViewOver ticks past the end.
ViewOver == 1
\* Previews and exports are asked for the times 0..ViewPreview.
ViewPreview == 1

\* ------------------------------------------------------- program constants
\* network_logic.rs:167  game_tick_speed().get() * 3
ReplaySeconds == 3
\* network_logic.rs:139  while snap_storage.len() >= 50
SnapStorageCap == 50

\* lib.rs:162  const DATA_PER_CHUNK_TO_WRITE: u64 = 30 * 50
DATA_PER_CHUNK_TO_WRITE == 1500
\* lib.rs:165  const SECONDS_UNTIL_WRITE: u64 = 3
SECONDS_UNTIL_WRITE == 3
\* game_event_generator.rs:71: network statistics are dropped when the
\* queue of events holds this many.
StatsQueueLimit == 200
\* lib.rs:492  Duration::from_secs(1).as_nanos()
NanosPerSecond == 1000000000

\* Option::None of an Option<u64>.
None == -1

Max(a, b) == IF a >= b THEN a ELSE b

SetMin(S) == CHOOSE x \in S : \A y \in S : x <= y
SetMax(S) == CHOOSE x \in S : \A y \in S : x >= y

VARIABLES
    \* ---- client (src/client/game.rs, network_logic.rs)
    game,                           \* variant of the Game enum
    panicked,                       \* the process hit a panic
    handled_snap_id,                \* GameData::handled_snap_id
    snap_storage,                   \* GameData::snap_storage: id -> item
    snap_acks,                      \* GameData::snap_acks
    input_per_tick,                 \* GameData::input_per_tick (its ticks)
    sent_input_ids,                 \* GameData::sent_input_ids (its ids)
    server_input_storage,           \* ClientPlayer::server_input_storage (ids)
    server_input,                   \* ClientPlayer::server_input (its id)
    next_input_id,                  \* the id the next input packet is sent with
    predicted_game_monotonic_tick,  \* the client game's predicted tick
    auth,                           \* the client's authoritative copy
    built,                          \* ids given to build_from_snapshot so far
    last,                           \* what handling the last message did
    msg,                            \* the last message a recording peer sent
    \* ---- game state (game/shared-game/src/state.rs)
    stages,                 \* GameState::game.stages: id -> stage
    pred_stages,            \* GameState::pred_game.stages
    id_generator,           \* GameState::id_generator: the next entity id
    event_id_generator,     \* GameState::event_id_generator: the next event id
    simulation_events,      \* GameState::simulation_events: world id -> events
    ev_serial,              \* events the authoritative simulation produced
    tick_calls,             \* calls of tick() so far
    returned,               \* the result of the last events_for call
    delivered,              \* per recipient, the events returned to it so far
    cleared,                \* the events clear_events has discarded
    no_char_players,        \* GameState::game.no_char_players: id -> player
    \* ---- the client's helpers
    profile,                \* an ActiveProfile, its fetch task and callers
    game_event_generator,   \* the GameEventGenerator and what arrived at it
    \* ---- demo recorder (game/client-demo/src/lib.rs)
    recorder,               \* the DemoRecorder and its channel to the writer
    writer_thread,          \* the locals and the file of writer_thread_run
    chunk_io                \* one chunk through write_chunk and read_chunks

netVars == <<game, panicked, handled_snap_id, snap_storage, snap_acks,
             input_per_tick, sent_input_ids, server_input_storage,
             server_input, next_input_id, predicted_game_monotonic_tick,
             auth, built, last, msg>>

clientVars == <<profile, game_event_generator>>

stateVars == <<stages, pred_stages, id_generator, event_id_generator,
               simulation_events, ev_serial, tick_calls, returned, delivered,
               cleared, no_char_players, clientVars>>

demoVars == <<recorder, writer_thread, chunk_io>>

vars == <<netVars, stateVars, demoVars>>

\* ========================================================= demo recorder
\* No chunk is on its way.
NoChunk == <<>>

\* DemoRecorder::new (lib.rs:184-235): empty maps, a channel to the writer
\* thread. snapshots and events hold the ticks of the maps in ascending
\* order; channel holds the chunks sent and not yet received, sent_chunks
\* every chunk handed to thread_sender so far; panicked tells that a call
\* on the recorder panicked. entries holds what the maps hold for a tick,
\* a snapshot or a list of events, where a specification follows it.
DemoRecorderNew ==
    [snapshots |-> <<>>, events |-> <<>>, dropped |-> FALSE,
     panicked |-> FALSE, channel |-> <<>>, sent_chunks |-> <<>>,
     entries |-> [Snapshots |-> [k \in {} |-> 0],
                  Events |-> [k \in {} |-> 0]]]

\* The locals of writer_thread_run before its receive loop (lib.rs:237-324)
\* and the file: the chunks written, in order, and the header at its start.
\* state is "running", "tail" (the tail is written), "header" (the final
\* header is written), "failed" (the function returned Err, which deletes
\* the temporary file) or "finished"; named tells that the file has its
\* final name. size counts the bytes written, the header and its extension
\* first; an index maps first ticks to offsets.
WriterThreadNew ==
    [state |-> "running",
     first_monotonic_snaps |-> None, last_monotonic_snaps |-> None,
     first_monotonic_events |-> None, last_monotonic_events |-> None,
     snapshots_index |-> [k \in {} |-> 0], events_index |-> [k \in {} |-> 0],
     size |-> HeaderBytes, file |-> <<>>, named |-> FALSE,
     header |-> [len |-> [secs |-> 0, nanos |-> 0], size_chunks |-> 0,
                 final |-> FALSE]]

\* DemoViewerImpl::new (lib.rs:920-945): the main viewer and the preview,
\* which is always paused. cur_time counts ticks, speed is the power of two
\* of the playback speed; exported holds the ticks an export recorded and
\* intra_tick_time what the last frame computed.
ViewerNew ==
    [inner   |-> [cur_snapshots |-> {}, cur_events |-> {}, cur_time |-> 0,
                  is_closed |-> FALSE, is_paused |-> FALSE, speed |-> 0],
     preview |-> [cur_snapshots |-> {}, cur_events |-> {}, cur_time |-> 0,
                  is_closed |-> FALSE, is_paused |-> TRUE, speed |-> 0],
     exported |-> {},
     intra_tick_time |-> [outcome |-> "ok", ticks |-> 0, tick_diff |-> 0]]

\* chunk is what write_chunk is given, bytes what it returned, read what
\* read_chunks made of the bytes. demo_viewer is the variant of the
\* DemoViewer enum, Loading after DemoViewer::new (lib.rs:1420-1502),
\* loaded what continue_loading returned last, and viewer the
\* DemoViewerImpl of the Rendering variant.
ChunkIoNew ==
    [chunk |-> NoChunk, bytes |-> NoChunk, read |-> NoChunk,
     demo_viewer |-> "Loading", loaded |-> "none", viewer |-> ViewerNew]

DemoNew ==
    /\ recorder = DemoRecorderNew
    /\ writer_thread = WriterThreadNew
    /\ chunk_io = ChunkIoNew

\* ============================================================ game state
\* ------------------------------------------------ stages and their step
\* A CharacterInput is one bit: 1 moves and fires, 0 does nothing.
Inputs == {0, 1}

\* The recipients events are built for.
Recipients == {"c1", "c2"}

\* A map without keys.
EmptyMap == [k \in {} |-> 0]

\* No projectile in the world.
NoProjectile == [alive |-> FALSE, id |-> None]

\* GameStage::new: an empty world at tick 0. id_gen tells whether the stage
\* was given the shared id generator (Some(&id_generator)) or None.
GameStageNew(id_gen) ==
    [tick |-> 0, characters |-> EmptyMap, projectile |-> NoProjectile,
     simulation_events |-> <<>>, id_gen |-> id_gen]

\* A character as add_char_to_stage spawns it for the player the info and
\* its version belong to.
CharacterNew(inp, player_info) ==
    [input |-> inp, pos |-> 0, player_info |-> player_info]

\* Whether the step of this stage spawns an entity.
Spawns(stage) ==
    /\ ~stage.projectile.alive
    /\ \E c \in DOMAIN stage.characters : stage.characters[c].input = 1

\* GameStage::tick: one deterministic simulation step. Characters move by
\* their input; a live projectile despawns, otherwise a firing character
\* spawns one, whose id comes from the shared generator if the stage has it.
\* A spawn raises the character's projectile notice and its sound, a despawn
\* the projectile's despawn notice.
\* The step hands out the events queued on the stage followed by its own.
\* ctx carries the id generator and the serial number of the next event.
StageTick(stage, ctx) ==
    LET queued == stage.simulation_events
        spawn == Spawns(stage)
        despawn == stage.projectile.alive
        own == IF despawn
               THEN <<[kind |-> "ProjectileDespawn", serial |-> ctx.ev_serial]>>
               ELSE IF spawn
               THEN <<[kind |-> "CharacterProjectile",
                       serial |-> ctx.ev_serial],
                      [kind |-> "CharacterSound",
                       serial |-> ctx.ev_serial + 1]>>
               ELSE <<>>
        takes_id == spawn /\ stage.id_gen
    IN [stage |->
          [stage EXCEPT
             !.tick = @ + 1,
             !.characters = [c \in DOMAIN stage.characters |->
                               [stage.characters[c] EXCEPT
                                  !.pos = @ + stage.characters[c].input]],
             !.projectile = IF despawn THEN NoProjectile
                            ELSE IF spawn
                            THEN [alive |-> TRUE,
                                  id |-> IF stage.id_gen THEN ctx.id_generator
                                         ELSE None]
                            ELSE @,
             !.simulation_events = <<>>],
        events |-> queued \o own,
        ctx |-> [id_generator |-> ctx.id_generator + (IF takes_id THEN 1 ELSE 0),
                 ev_serial |-> ctx.ev_serial + Len(own)]]

\* SimulationEvents::insert_world_evs: the events of a world are appended to
\* what is queued for it.
InsertWorldEvs(sim_events, world_id, evs) ==
    IF world_id \in DOMAIN sim_events
    THEN [sim_events EXCEPT ![world_id] = @ \o evs]
    ELSE [w \in DOMAIN sim_events \cup {world_id} |->
            IF w = world_id THEN evs ELSE sim_events[w]]

\* ------------------------------------------------- GameState::tick_impl
\* The events of a step are queued only by the authoritative pass.
QueueEvents(sim_events, stage_id, evs, is_prediction) ==
    IF ~is_prediction THEN InsertWorldEvs(sim_events, stage_id, evs)
    ELSE sim_events

\* Steps every stage of the chosen copy, in the order of the stage map.
\* Only the authoritative pass queues the events; prediction events are
\* ignored. The result carries the stepped stages, the event queue and ctx.
RECURSIVE TickStages(_, _, _, _, _)
TickStages(todo, stgs, sim_events, ctx, is_prediction) ==
    IF todo = {} THEN [stages |-> stgs, simulation_events |-> sim_events,
                       ctx |-> ctx]
    ELSE LET stage_id == SetMin(todo)
             r == StageTick(stgs[stage_id], ctx)
         IN TickStages(todo \ {stage_id},
                       [stgs EXCEPT ![stage_id] = r.stage],
                       QueueEvents(sim_events, stage_id, r.events,
                                   is_prediction),
                       IF ~is_prediction THEN r.ctx
                       ELSE [r.ctx EXCEPT !.ev_serial = ctx.ev_serial],
                       is_prediction)

\* The two copies of the game a GameState holds.
Copies(game_stages, pred_game_stages) ==
    [game |-> game_stages, pred_game |-> pred_game_stages]

\* The stages of one copy replaced.
WithStages(copies, is_prediction, stgs) ==
    IF ~is_prediction THEN [copies EXCEPT !.game = stgs]
    ELSE [copies EXCEPT !.pred_game = stgs]

TickImpl_FirstStageOnly(copies, sim_events, ctx, is_prediction) ==
    LET stgs == IF ~is_prediction THEN copies.game ELSE copies.pred_game
        r == TickStages(IF stgs = EmptyMap THEN {} ELSE {SetMin(DOMAIN stgs)},
                        stgs, sim_events, ctx, is_prediction)
    IN [copies |-> WithStages(copies, is_prediction, r.stages),
        simulation_events |-> r.simulation_events, ctx |-> r.ctx]

\* tick_impl steps game.stages, or pred_game.stages if is_prediction.
TickImpl(copies, sim_events, ctx, is_prediction) ==
    LET stgs == IF ~is_prediction THEN copies.game ELSE copies.pred_game
        r == TickStages(DOMAIN stgs, stgs, sim_events, ctx, is_prediction)
    IN [copies |-> WithStages(copies, is_prediction, r.stages),
        simulation_events |-> r.simulation_events, ctx |-> r.ctx]

\* The players registry of the authoritative game: player id -> stage id.
PlayerStage(stgs, player_id) ==
    CHOOSE s \in DOMAIN stgs : player_id \in DOMAIN stgs[s].characters

IsPlayer(stgs, player_id) ==
    \E s \in DOMAIN stgs : player_id \in DOMAIN stgs[s].characters

Players(stgs) == {p \in 0..(MaxEntityId + 1) : IsPlayer(stgs, p)}

\* ------------------------------------------ GameState::set_player_inp_impl
SetPlayerInpImpl_AlwaysGame(copies, player_id, inp, is_prediction) ==
    IF IsPlayer(copies.game, player_id)
    THEN LET s == PlayerStage(copies.game, player_id)
         IN [copies EXCEPT !.game[s].characters[player_id].input = inp]
    ELSE copies

\* The player is looked up in the authoritative players; its character is
\* then taken from game.stages, or from pred_game.stages if is_prediction,
\* and its input is set.
SetPlayerInpImpl(copies, player_id, inp, is_prediction) ==
    IF IsPlayer(copies.game, player_id)
    THEN LET s == PlayerStage(copies.game, player_id)
         IN IF ~is_prediction
            THEN [copies EXCEPT !.game[s].characters[player_id].input = inp]
            ELSE [copies EXCEPT
                    !.pred_game[s].characters[player_id].input = inp]
    ELSE copies

\* --------------------------------------------------------- snapshots
\* SnapshotManager::build_stages: the stages of the authoritative game as
\* a snapshot holds them (no pending events, no generator).
BuildStages(stgs) ==
    [s \in DOMAIN stgs |->
        [tick |-> stgs[s].tick, characters |-> stgs[s].characters,
         projectile |-> stgs[s].projectile]]

\* SnapshotManager::convert_to_game_stages: the target stages become the
\* stages of the snapshot, each built with the given id generator option.
ConvertToGameStages(snap_stages, id_gen) ==
    [s \in DOMAIN snap_stages |->
        [tick |-> snap_stages[s].tick,
         characters |-> snap_stages[s].characters,
         projectile |-> snap_stages[s].projectile,
         simulation_events |-> <<>>,
         id_gen |-> id_gen]]

BuildPredFromStages_WithGenerator(snap_stages) ==
    ConvertToGameStages(snap_stages, TRUE)

\* GameState::build_pred_from_stages: the prediction stages are built
\* without the id generator (None).
BuildPredFromStages(snap_stages) == ConvertToGameStages(snap_stages, FALSE)

\* Applies the inputs of a pred_tick call, in the order of the map.
RECURSIVE SetPredInputs(_, _, _)
SetPredInputs(todo, inps, copies) ==
    IF todo = {} THEN copies
    ELSE LET id == SetMin(todo)
         IN SetPredInputs(todo \ {id}, inps,
                          SetPlayerInpImpl(copies, id, inps[id], TRUE))

\* The prediction copy rebuilt from a snapshot of the authoritative one.
SyncPred(copies) ==
    [copies EXCEPT !.pred_game = BuildPredFromStages(BuildStages(copies.game))]

PredTickResult_InputThenSync(copies, sim_events, ctx, inps) ==
    LET with_inp == SetPredInputs(DOMAIN inps, inps, copies)
        synced == SyncPred(with_inp)
    IN TickImpl(synced, sim_events, ctx, TRUE)

\* GameState::pred_tick: build_stages of self, build_pred_from_stages,
\* set_player_inp_impl(.., true) for every input, tick_impl(true).
PredTickResult(copies, sim_events, ctx, inps) ==
    LET synced == SyncPred(copies)
        with_inp == SetPredInputs(DOMAIN inps, inps, synced)
    IN TickImpl(with_inp, sim_events, ctx, TRUE)

\* ------------------------------------------------------------ events_for
RECURSIVE WorldEvents_All(_, _)
WorldEvents_All(evs, next_id) ==
    IF evs = <<>> THEN <<>>
    ELSE <<[event_id |-> next_id, kind |-> Head(evs).kind,
            serial |-> Head(evs).serial]>>
         \o WorldEvents_All(Tail(evs), next_id + 1)

\* The events of one world that are sent to clients, in the order queued,
\* each given the next event id; events_for skips the projectile events
\* ("ignored", "not sent to client").
RECURSIVE WorldEvents(_, _)
WorldEvents(evs, next_id) ==
    IF evs = <<>> THEN <<>>
    ELSE IF Head(evs).kind \in {"CharacterProjectile", "ProjectileDespawn"}
    THEN WorldEvents(Tail(evs), next_id)
    ELSE <<[event_id |-> next_id, kind |-> Head(evs).kind,
            serial |-> Head(evs).serial]>>
         \o WorldEvents(Tail(evs), next_id + 1)

\* GameState::events_for iterates the queued worlds; a world is part of the
\* result only if it has events for the client.
RECURSIVE EventsForWorlds(_, _, _, _)
EventsForWorlds(todo, sim_events, next_id, acc) ==
    IF todo = {} THEN [worlds |-> acc, event_id |-> next_id]
    ELSE LET w == SetMin(todo)
             evs == WorldEvents(sim_events[w], next_id)
         IN EventsForWorlds(todo \ {w}, sim_events, next_id + Len(evs),
                IF evs = <<>> THEN acc
                ELSE [x \in DOMAIN acc \cup {w} |->
                        IF x = w THEN evs ELSE acc[x]])

\* The state a new GameState is in: the constructor takes one id for
\* stage_0_id and add_stage takes the next one for the stage itself.
stage_0_id == 1

GameStateNew ==
    /\ stages = [s \in {stage_0_id} |-> GameStageNew(TRUE)]
    /\ pred_stages = EmptyMap
    /\ id_generator = stage_0_id + 1
    /\ event_id_generator = 0
    /\ simulation_events = EmptyMap
    /\ ev_serial = 0
    /\ tick_calls = 0
    /\ returned = [worlds |-> EmptyMap, event_id |-> 0]
    /\ delivered = [r \in Recipients |-> {}]
    /\ cleared = {}
    /\ no_char_players = EmptyMap

\* ================================================================ client
\* ------------------------------------------------------------------ values
\* An overhead_time is a Duration a peer sends, relative to the client's
\* clock reading: "huge" exceeds it (Duration's `-` panics on underflow).
\* The bytes of a Snapshot message are told apart by what the decoders
\* make of them: "valid" is a snapshot (or a patch that yields one),
\* "garbage" is not a snapshot (or a patch that yields none), so that
\* bincode::serde::decode_from_slice fails on it, and "malformed" is no
\* patch at all.

\* bin_patch::patch(old, patch, out): Err on a malformed patch, else the
\* patched bytes.
BinPatch(old, patch) ==
    IF patch = "malformed" THEN [ok |-> FALSE, bytes |-> "malformed"]
    ELSE [ok |-> TRUE, bytes |-> patch]

\* GameData::new and the freshly loaded map's game.

NoLast == [outcome |-> "none", pre_tick |-> 0, prev_tick |-> 0, snap_tick |-> 0,
           steps |-> <<>>, pings |-> 0, add_snap |-> FALSE,
           missing_base |-> FALSE, acks |-> <<>>, stored |-> {},
           was_server_input |-> None]

\* An ActiveProfile after it was loaded (profiles.rs:63-82): no
\* certificate. notifier is the Notify the certificate state holds, the
\* n-th one created for the profile; tasks tells for each notifier how far
\* the fetch task spawned with it is, joined whether the caller that
\* spawned the task awaits it, permits which notifiers hold a permit,
\* waiting and woken how many callers wait on a notifier or were woken
\* and have not run yet; calls counts the calls so far.
ProfileNew ==
    [cur_cert |-> "None", notifier |-> 0, calls |-> 0, permits |-> {},
     tasks   |-> [n \in 1..MaxCalls |-> "none"],
     joined  |-> [n \in 1..MaxCalls |-> FALSE],
     waiting |-> [n \in 1..MaxCalls |-> 0],
     woken   |-> [n \in 1..MaxCalls |-> 0]]

\* GameEventGenerator::new (game_event_generator.rs:28-33): no events.
\* arrived lists the calls so far, each with the length the queue had.
GameEventGeneratorNew ==
    [events |-> <<>>, has_events |-> FALSE, arrived |-> <<>>]

ClientNew ==
    /\ profile = ProfileNew
    /\ game_event_generator = GameEventGeneratorNew

GameDataNew ==
    /\ handled_snap_id = None
    /\ snap_storage = <<>>
    /\ snap_acks = <<>>
    /\ input_per_tick = <<>>
    /\ sent_input_ids = {}
    /\ server_input_storage = {}
    /\ server_input = None
    /\ next_input_id = 0
    /\ predicted_game_monotonic_tick = 0
    /\ auth = [snapshot |-> "none", ticks |-> 0]
    /\ built = <<>>
    /\ msg = [kind |-> "none"]

InitNet ==
    /\ game \in {"None", "PrepareConnect", "Connecting"}
    /\ panicked = FALSE
    /\ GameDataNew
    /\ ClientNew
    /\ last = NoLast
    /\ GameStateNew
    /\ DemoNew

\* ------------------------------------------------- NetworkLogic::ack_input
\* server_input_storage.remove(&input_id) promotes the input; then every
\* entry in front of input_id is popped.
AckInput_NoPop(st, input_id) ==
    [storage |-> st.storage \ {input_id},
     server_input |-> IF input_id \in st.storage THEN input_id
                      ELSE st.server_input]

AckInput(st, input_id) ==
    [storage |-> {i \in st.storage : i > input_id},
     server_input |-> IF input_id \in st.storage THEN input_id
                      ELSE st.server_input]

RECURSIVE AckInputs(_, _)
AckInputs(st, acks) ==
    IF acks = <<>> THEN st
    ELSE AckInputs(AckInput(st, Head(acks)), Tail(acks))

SeqToSet(s) == {s[i] : i \in 1..Len(s)}

\* The acknowledgements on_msg handles (lines 69-86): those of the
\* message, before the snapshot is resolved, whether it is applied or not.
HandledAcks_IfApplied(m, applied) == IF applied THEN m.input_ack ELSE <<>>

HandledAcks(m, applied) == m.input_ack

\* ---------------------------------------------- NetworkLogic::on_msg pieces
\* A resolution that takes snap_id_diffed for the id of a diff as well.
ResolveSnapshot_NoDiffId(m, storage) ==
    IF m.diff_id # None
    THEN IF m.diff_id \in DOMAIN storage
         THEN LET old == storage[m.diff_id]
                  res == BinPatch(old.snapshot, m.snapshot)
              IN  [ok |-> res.ok, snapshot |-> res.bytes,
                   snap_id |-> m.snap_id_diffed,
                   tick |-> m.game_monotonic_tick_diff + old.monotonic_tick]
         ELSE [ok |-> FALSE, snapshot |-> "malformed", snap_id |-> None, tick |-> 0]
    ELSE [ok |-> TRUE, snapshot |-> m.snapshot, snap_id |-> m.snap_id_diffed,
          tick |-> m.game_monotonic_tick_diff]

\* Lines 88-101: the snapshot, its id and its tick, or Err.
ResolveSnapshot(m, storage) ==
    IF m.diff_id # None
    THEN IF m.diff_id \in DOMAIN storage
         THEN LET old == storage[m.diff_id]
                  res == BinPatch(old.snapshot, m.snapshot)
              IN  [ok |-> res.ok, snapshot |-> res.bytes,
                   snap_id |-> m.snap_id_diffed + m.diff_id,
                   tick |-> m.game_monotonic_tick_diff + old.monotonic_tick]
         ELSE [ok |-> FALSE, snapshot |-> "malformed", snap_id |-> None, tick |-> 0]
    ELSE [ok |-> TRUE, snapshot |-> m.snapshot, snap_id |-> m.snap_id_diffed,
          tick |-> m.game_monotonic_tick_diff]

\* A test that lets the snapshot already handled through again.
IsNewSnapshot_AcceptsSame(handled, snap_id) ==
    ~(handled # None /\ handled > snap_id)

\* Lines 122-126: !handled_snap_id.is_some_and(|id| id >= snap_id)
IsNewSnapshot(handled, snap_id) == ~(handled # None /\ handled >= snap_id)

\* A store that pops only once it holds more than 50 entries.
RECURSIVE PopWhileFull_Above(_)
PopWhileFull_Above(storage) ==
    IF Cardinality(DOMAIN storage) > SnapStorageCap
    THEN LET first == SetMin(DOMAIN storage)
         IN  PopWhileFull_Above([k \in DOMAIN storage \ {first} |-> storage[k]])
    ELSE storage

\* Lines 139-141: while snap_storage.len() >= 50 { pop_first() }
RECURSIVE PopWhileFull(_)
PopWhileFull(storage) ==
    IF Cardinality(DOMAIN storage) >= SnapStorageCap
    THEN LET first == SetMin(DOMAIN storage)
         IN  PopWhileFull([k \in DOMAIN storage \ {first} |-> storage[k]])
    ELSE storage

\* Lines 142-148: snap_storage.insert(snap_id, item)
StorageInsert(storage, snap_id, item) ==
    [k \in DOMAIN storage \cup {snap_id} |->
        IF k = snap_id THEN item ELSE storage[k]]

\* The predicted tick following the snapshot's tick unconditionally.
PredictedAfter_SnapshotTick(monotonic_tick, prev_tick) == monotonic_tick

\* Line 152
PredictedAfter(monotonic_tick, prev_tick) == Max(monotonic_tick, prev_tick)

\* Lines 154-161: pop the front while its tick is before the snapshot's tick.
RECURSIVE DropQueuedInput(_, _)
DropQueuedInput(ipt, monotonic_tick) ==
    IF ipt # <<>> /\ Head(ipt) < monotonic_tick
    THEN DropQueuedInput(Tail(ipt), monotonic_tick)
    ELSE ipt

\* A replay from the snapshot's tick, without the clamp.
ReplayMinTick_NoClamp(monotonic_tick, prev_tick) == monotonic_tick

\* Lines 166-169: monotonic_tick.clamp(lo, prev_tick), lo being
\* prev_tick.saturating_sub of three seconds of ticks.
ReplayMinTick(monotonic_tick, prev_tick) ==
    LET back == TicksPerSecond * ReplaySeconds
        lo == IF prev_tick >= back THEN prev_tick - back ELSE 0
    IN  IF monotonic_tick < lo THEN lo
        ELSE IF monotonic_tick > prev_tick THEN prev_tick
        ELSE monotonic_tick

\* A lookup without the fallback to an earlier input.
InputFor_ExactOnly(ipt, tick_of_inp) ==
    IF tick_of_inp \in SeqToSet(ipt) THEN tick_of_inp ELSE None

\* Lines 174-180: the input for tick_of_inp, else the last queued input whose
\* tick is at most tick_of_inp; None when there is neither.
InputFor(ipt, tick_of_inp) ==
    IF tick_of_inp \in SeqToSet(ipt) THEN tick_of_inp
    ELSE LET idx == {i \in 1..Len(ipt) : ipt[i] <= tick_of_inp}
         IN  IF idx = {} THEN None ELSE ipt[SetMax(idx)]

\* A replay that starts one tick after min_tick.
ReplaySteps_FromNext(ipt, min_tick, max_tick) ==
    [i \in 1..(max_tick - min_tick - 1) |->
        [tick |-> min_tick + i, inp |-> InputFor(ipt, min_tick + i + 1)]]

\* Lines 170-212: one game.tick() per new_tick in min_tick..max_tick.
ReplaySteps(ipt, min_tick, max_tick) ==
    [i \in 1..(max_tick - min_tick) |->
        [tick |-> min_tick + i - 1, inp |-> InputFor(ipt, min_tick + i)]]

\* ------------------------------------------------------------- messages
\* ServerToClientMessage variants whose handling touches none of the
\* reconciliation state.
OtherKinds == {"ServerInfo", "QueueInfo", "Events", "Chat", "LoadVoteMap"}

SnapshotMsgs(acks) ==
    [kind : {"Snapshot"}, overhead_time : {"small", "huge"},
     snapshot : {"valid", "garbage", "malformed"},
     game_monotonic_tick_diff : 0..MaxTick,
     snap_id_diffed : 0..MaxSnapId, diff_id : {None} \cup 0..MaxSnapId,
     as_diff : BOOLEAN, input_ack : acks]

PlainMsg(kind) ==
    [kind |-> kind, overhead_time |-> "small", snapshot |-> "valid",
     game_monotonic_tick_diff |-> 0, snap_id_diffed |-> 0, diff_id |-> None,
     as_diff |-> FALSE, input_ack |-> <<>>]

\* The message is diff-encoded and snap_storage has no entry for its base.
MissingBase(m, storage) ==
    m.kind = "Snapshot" /\ m.diff_id # None /\ m.diff_id \notin DOMAIN storage

\* The resolved id and tick stay inside the model's ranges.
InRange(m) ==
    LET r == ResolveSnapshot(m, snap_storage)
    IN  r.ok => (r.snap_id <= MaxSnapId /\ r.tick <= MaxTick)

Panic(m) ==
    /\ panicked' = TRUE
    /\ last' = [NoLast EXCEPT !.outcome = "panic",
                              !.missing_base = MissingBase(m, snap_storage)]
    /\ UNCHANGED <<game, handled_snap_id, snap_storage, snap_acks,
                   input_per_tick, sent_input_ids, server_input_storage,
                   server_input, next_input_id,
                   predicted_game_monotonic_tick, auth, built>>

\* -------------------------------------------------- NetworkLogic::on_msg
\* The Snapshot arm (lines 60-249). pred0 is the predicted tick as Game::on_msg
\* left it; next is the Game variant after it. The prediction timer and
\* last_game_tick (wall-clock estimates) are recorded as calls only; `last`
\* keeps the previous predicted tick, the snapshot's tick and the replayed
\* steps of an applied snapshot.
NetworkLogicSnapshot(m, pred0, next) ==
    LET r        == ResolveSnapshot(m, snap_storage)
        acks     == HandledAcks(m, r.ok /\ IsNewSnapshot(handled_snap_id,
                                                         r.snap_id))
        acked    == AckInputs([storage |-> server_input_storage,
                               server_input |-> server_input], acks)
        pinged   == SeqToSet(acks) \cap sent_input_ids
        prev_tick == pred0
        base     == [NoLast EXCEPT !.pings = Cardinality(pinged),
                                   !.missing_base = MissingBase(m, snap_storage),
                                   !.acks = m.input_ack,
                                   !.stored = server_input_storage,
                                   !.was_server_input = server_input]
    IN
    /\ server_input_storage' = acked.storage
    /\ server_input' = acked.server_input
    /\ sent_input_ids' = sent_input_ids \ pinged
    /\ UNCHANGED next_input_id
    /\ game' = next
    /\ panicked' = FALSE
    /\ IF ~r.ok
       THEN \* lines 106-109: dropped
            /\ last' = [base EXCEPT !.outcome = "dropped"]
            /\ predicted_game_monotonic_tick' = pred0
            /\ UNCHANGED <<handled_snap_id, snap_storage, snap_acks,
                           input_per_tick, auth, built>>
       ELSE IF ~IsNewSnapshot(handled_snap_id, r.snap_id)
       THEN \* not newer: only the prediction timer sees it (line 248)
            /\ last' = [base EXCEPT !.outcome = "stale", !.add_snap = TRUE]
            /\ predicted_game_monotonic_tick' = pred0
            /\ UNCHANGED <<handled_snap_id, snap_storage, snap_acks,
                           input_per_tick, auth, built>>
       ELSE \* lines 127-225
            LET ipt   == DropQueuedInput(input_per_tick, r.tick)
                steps == IF prev_tick > r.tick
                         THEN ReplaySteps(ipt, ReplayMinTick(r.tick, prev_tick),
                                          prev_tick)
                         ELSE <<>>
            IN
            /\ handled_snap_id' = r.snap_id
            /\ snap_storage' =
                 IF m.as_diff
                 THEN StorageInsert(PopWhileFull(snap_storage), r.snap_id,
                                    [snapshot |-> r.snapshot,
                                     monotonic_tick |-> r.tick])
                 ELSE snap_storage
            /\ snap_acks' = Append(snap_acks, r.snap_id)
            /\ predicted_game_monotonic_tick' = PredictedAfter(r.tick, prev_tick)
            /\ input_per_tick' = ipt
            /\ auth' = [snapshot |-> r.snapshot, ticks |-> Len(steps)]
            /\ built' = Append(built, r.snap_id)
            /\ last' = [base EXCEPT !.outcome = "applied",
                                    !.pre_tick = predicted_game_monotonic_tick,
                                    !.prev_tick = prev_tick,
                                    !.snap_tick = r.tick,
                                    !.steps = steps, !.add_snap = TRUE]

\* build_from_snapshot (state.rs 1781-1789) unwraps the decode of the bytes.
SnapshotPanics(m) ==
    LET r == ResolveSnapshot(m, snap_storage)
    IN  r.ok /\ IsNewSnapshot(handled_snap_id, r.snap_id) /\ r.snapshot # "valid"

\* The arms of NetworkLogic::on_msg other than Snapshot.
NetworkLogicOther(m, next) ==
    /\ m.kind \in OtherKinds
    /\ game' = next
    /\ last' = [NoLast EXCEPT !.outcome = "other"]
    /\ UNCHANGED <<panicked, handled_snap_id, snap_storage, snap_acks,
                   input_per_tick, sent_input_ids, server_input_storage,
                   server_input, next_input_id,
                   predicted_game_monotonic_tick, auth, built>>

\* ------------------------------------------------------------ Game::on_msg
\* Lines 1068-1098: what the first snapshot sets the predicted tick to.
FirstPredictedTick(m, storage) ==
    IF m.diff_id # None /\ m.diff_id \in DOMAIN storage
    THEN m.game_monotonic_tick_diff + storage[m.diff_id].monotonic_tick
    ELSE m.game_monotonic_tick_diff

Ignore(m) ==
    /\ last' = [NoLast EXCEPT !.outcome = "ignored"]
    /\ UNCHANGED <<panicked, handled_snap_id, snap_storage, snap_acks,
                   input_per_tick, sent_input_ids, server_input_storage,
                   server_input, next_input_id,
                   predicted_game_monotonic_tick, auth, built>>

\* A client that stops waiting at any message.
IsWaitingAfter_Never(is_waiting, m) == FALSE

\* Lines 1067-1100: a Snapshot message ends the wait for the first snapshot.
IsWaitingAfter(is_waiting, m) == is_waiting /\ m.kind # "Snapshot"

\* Lines 1127-1131: the variant the game is put back as.
GameAfter(is_waiting) ==
    IF is_waiting THEN "WaitingForFirstSnapshot" ELSE "Active"

OnMsg(m) ==
    /\ ~panicked
    /\ CASE game \in {"None", "PrepareConnect", "Loading"} ->
              game' = game /\ Ignore(m)
         [] game = "Connecting" ->
              /\ game' = IF m.kind = "ServerInfo" THEN "Loading" ELSE "Connecting"
              /\ Ignore(m)
         [] game \in {"WaitingForFirstSnapshot", "Active"} ->
              LET is_waiting == game = "WaitingForFirstSnapshot" IN
              CASE m.kind = "Load" -> game' = "Loading" /\ Ignore(m)
                [] m.kind = "Snapshot" ->
                     IF is_waiting /\ m.overhead_time = "huge"
                     THEN Panic(m)   \* time_get_nanoseconds() - overhead_time
                     ELSE IF SnapshotPanics(m)
                     THEN Panic(m)
                     ELSE NetworkLogicSnapshot(m,
                            IF is_waiting THEN FirstPredictedTick(m, snap_storage)
                            ELSE predicted_game_monotonic_tick,
                            GameAfter(IsWaitingAfter(is_waiting, m)))
                [] m.kind = "LoadVoteMisc" -> Panic(m)   \* todo!()
                [] OTHER -> NetworkLogicOther(m,
                              GameAfter(IsWaitingAfter(is_waiting, m)))

\* A message whose resolved id and tick are inside the model's ranges is
\* handled.
GameOnMsg(m) == InRange(m) /\ OnMsg(m)

\* Game::update, lines 860-900: the loaded map becomes a game that waits for
\* its first snapshot, with a new GameData.
FinishLoading ==
    /\ ~panicked
    /\ game = "Loading"
    /\ game' = "WaitingForFirstSnapshot"
    /\ handled_snap_id' = None
    /\ snap_storage' = <<>>
    /\ snap_acks' = <<>>
    /\ input_per_tick' = <<>>
    /\ sent_input_ids' = {}
    /\ server_input_storage' = {}
    /\ server_input' = None
    /\ next_input_id' = 0
    /\ predicted_game_monotonic_tick' = 0
    /\ auth' = [snapshot |-> "none", ticks |-> 0]
    /\ built' = <<>>
    /\ last' = NoLast
    /\ UNCHANGED <<panicked, msg>>
    /\ UNCHANGED <<stateVars, demoVars>>

\* ------------------------------------------------------- specification
\* The peer sends a snapshot message (no input acknowledgements).
DeliverSnapshot ==
    /\ \E m \in SnapshotMsgs({<<>>}) : GameOnMsg(m)
    /\ UNCHANGED <<msg, stateVars, demoVars>>

\* The peer sends any other message.
DeliverOther ==
    /\ \E k \in OtherKinds \cup {"Load", "LoadVoteMisc"} :
          GameOnMsg(PlainMsg(k))
    /\ UNCHANGED <<msg, stateVars, demoVars>>

NextNet == DeliverSnapshot \/ DeliverOther \/ FinishLoading

SpecNet == InitNet /\ [][NextNet]_vars

\* ------------------------------------- input acknowledgements (SpecAck)
\* The client sends an input packet: it takes the next id, is kept until
\* acknowledged and its send time is remembered for the round trip.
SendInput ==
    /\ ~panicked
    /\ game = "Active"
    /\ next_input_id <= MaxInputId
    /\ server_input_storage' = server_input_storage \cup {next_input_id}
    /\ sent_input_ids' = sent_input_ids \cup {next_input_id}
    /\ next_input_id' = next_input_id + 1
    /\ last' = [NoLast EXCEPT !.outcome = "input"]
    /\ UNCHANGED <<game, panicked, handled_snap_id, snap_storage, snap_acks,
                   input_per_tick, server_input,
                   predicted_game_monotonic_tick, auth, built, msg>>
    /\ UNCHANGED <<stateVars, demoVars>>

\* Snapshot messages at tick 0 that carry acknowledgements (up to two ids,
\* in any order, sent or not); one with a diff_id has no base in the store.
AckMsgs ==
    [kind : {"Snapshot"}, overhead_time : {"small"}, snapshot : {"valid"},
     game_monotonic_tick_diff : {0}, snap_id_diffed : 0..MaxSnapId,
     diff_id : {None, 0}, as_diff : {FALSE},
     input_ack : UNION {[1..n -> 0..MaxInputId] : n \in 0..2}]

DeliverAckSnapshot ==
    /\ \E m \in AckMsgs : GameOnMsg(m)
    /\ UNCHANGED <<msg, stateVars, demoVars>>

\* A game that was just loaded and waits for its first snapshot.
InitWaiting ==
    /\ game = "WaitingForFirstSnapshot"
    /\ panicked = FALSE
    /\ GameDataNew
    /\ ClientNew
    /\ last = NoLast
    /\ GameStateNew
    /\ DemoNew

NextAck == SendInput \/ DeliverAckSnapshot

SpecAck == InitWaiting /\ [][NextAck]_vars

\* ------------------------------------ the Game variants (SpecVariant)
\* Snapshot messages that are not kept as diff bases: good or bad bytes,
\* full or diffed against a base the store does not hold, with a usable or
\* an oversized overhead.
VariantMsgs ==
    [kind : {"Snapshot"}, overhead_time : {"small", "huge"},
     snapshot : {"valid", "garbage", "malformed"},
     game_monotonic_tick_diff : 0..MaxTick, snap_id_diffed : 0..MaxSnapId,
     diff_id : {None, 0}, as_diff : {FALSE}, input_ack : {<<>>}]

DeliverVariantSnapshot ==
    /\ \E m \in VariantMsgs : GameOnMsg(m)
    /\ UNCHANGED <<msg, stateVars, demoVars>>

NextVariant == DeliverVariantSnapshot \/ DeliverOther \/ FinishLoading

SpecVariant == InitNet /\ [][NextVariant]_vars

\* --------------------------------------- replay of inputs (SpecReplay)
\* The client buffers the input of a tick it predicts; ticks are predicted
\* in increasing order, and not every tick has an input.
QueueInput ==
    /\ ~panicked
    /\ game = "Active"
    /\ \E tick \in 1..MaxTick :
          /\ \A i \in 1..Len(input_per_tick) : input_per_tick[i] < tick
          /\ input_per_tick' = Append(input_per_tick, tick)
    /\ last' = [NoLast EXCEPT !.outcome = "input"]
    /\ UNCHANGED <<game, panicked, handled_snap_id, snap_storage, snap_acks,
                   sent_input_ids, server_input_storage, server_input,
                   next_input_id, predicted_game_monotonic_tick, auth, built,
                   msg>>
    /\ UNCHANGED <<stateVars, demoVars>>

\* Full snapshots of any tick.
ReplayMsgs ==
    [kind : {"Snapshot"}, overhead_time : {"small"}, snapshot : {"valid"},
     game_monotonic_tick_diff : 0..MaxTick, snap_id_diffed : 0..MaxSnapId,
     diff_id : {None}, as_diff : {FALSE}, input_ack : {<<>>}]

DeliverReplaySnapshot ==
    /\ \E m \in ReplayMsgs : GameOnMsg(m)
    /\ UNCHANGED <<msg, stateVars, demoVars>>

NextReplay == QueueInput \/ DeliverReplaySnapshot

SpecReplay == InitWaiting /\ [][NextReplay]_vars

\* ------------------------------------------ the diff-base store (SpecStore)
\* The greatest snapshot id the peer uses is SnapStorageCap + StoreIdsOver.

\* The peer numbers its snapshots consecutively: the next one, sent in full
\* and to be kept as a diff base.
NextSnapshotMsg ==
    [kind |-> "Snapshot", overhead_time |-> "small", snapshot |-> "valid",
     game_monotonic_tick_diff |-> 0,
     snap_id_diffed |-> IF handled_snap_id = None THEN 0
                        ELSE handled_snap_id + 1,
     diff_id |-> None, as_diff |-> TRUE, input_ack |-> <<>>]

\* While the store has more than StoreSlack free entries the snapshots
\* arrive in order, each once.
DeliverNextSnapshot ==
    /\ Cardinality(DOMAIN snap_storage) < SnapStorageCap - StoreSlack
    /\ OnMsg(NextSnapshotMsg)
    /\ msg' = NextSnapshotMsg
    /\ UNCHANGED <<stateVars, demoVars>>

\* After that any snapshot may arrive: full or diffed, old or new, kept as a
\* base or not. The bases the peer diffs against are the first snapshot and
\* the last one that arrived in order.
StoreMsgs ==
    [kind : {"Snapshot"}, overhead_time : {"small"}, snapshot : {"valid"},
     game_monotonic_tick_diff : {0},
     snap_id_diffed : (1..StoreIdsOver)
                        \cup ((SnapStorageCap - StoreSlack)..(SnapStorageCap + StoreIdsOver)),
     diff_id : {None, 0, SnapStorageCap - StoreSlack - 1},
     as_diff : BOOLEAN, input_ack : {<<>>}]

DeliverStoreSnapshot ==
    /\ Cardinality(DOMAIN snap_storage) >= SnapStorageCap - StoreSlack
    /\ \E m \in StoreMsgs :
          /\ LET r == ResolveSnapshot(m, snap_storage)
             IN  r.ok => r.snap_id <= (SnapStorageCap + StoreIdsOver)
          /\ OnMsg(m)
          /\ msg' = m
    /\ UNCHANGED <<stateVars, demoVars>>

NextStore == DeliverNextSnapshot \/ DeliverStoreSnapshot

SpecStore == InitWaiting /\ [][NextStore]_vars

\* ============================================== game state: operations

\* GameState::player_join of a new player: the next entity id becomes the
\* player id, PlayerJoined is queued on stage 0 and the character spawns
\* there with the default input, the client's info and version 1.
PlayerJoin ==
    /\ ~panicked
    /\ id_generator <= MaxEntityId
    /\ LET player_id == id_generator
           ev == [kind |-> "PlayerJoined", serial |-> ev_serial]
           st0 == stages[stage_0_id]
       IN stages' = [stages EXCEPT ![stage_0_id] =
             [st0 EXCEPT
                !.simulation_events = Append(@, ev),
                !.characters = [c \in DOMAIN st0.characters \cup {player_id} |->
                                  IF c = player_id
                                  THEN CharacterNew(0, [info |-> 0,
                                                        version |-> 1])
                                  ELSE st0.characters[c]]]]
    /\ id_generator' = id_generator + 1
    /\ ev_serial' = ev_serial + 1
    /\ UNCHANGED <<pred_stages, event_id_generator, simulation_events,
                   tick_calls, returned, delivered, cleared,
                   no_char_players, clientVars>>
    /\ UNCHANGED <<netVars, demoVars>>

\* GameState::set_player_input: set_player_inp_impl on the authoritative
\* stages; an unknown player id changes nothing.
SetPlayerInput(player_id, inp) ==
    /\ ~panicked
    /\ LET r == SetPlayerInpImpl(Copies(stages, pred_stages), player_id, inp,
                                 FALSE)
       IN stages' = r.game /\ pred_stages' = r.pred_game
    /\ UNCHANGED <<id_generator, event_id_generator,
                   simulation_events, ev_serial, tick_calls, returned,
                   delivered, cleared,
                   no_char_players, clientVars>>
    /\ UNCHANGED <<netVars, demoVars>>

\* A change of stage that removes stage 0 as well when it is left empty.
JoinStage_AnyStage(player_id) ==
    /\ ~panicked
    /\ id_generator <= MaxEntityId
    /\ IF IsPlayer(stages, player_id)
       THEN LET old == PlayerStage(stages, player_id)
                inp == stages[old].characters[player_id].input
                player_info == stages[old].characters[player_id].player_info
                rest == DOMAIN stages[old].characters \ {player_id}
                left == [stages EXCEPT ![old].characters =
                           [c \in rest |-> stages[old].characters[c]]]
                kept == IF /\ rest = {}
                           /\ \A p \in DOMAIN no_char_players :
                                 no_char_players[p].stage_id # old
                        THEN [s \in DOMAIN left \ {old} |-> left[s]]
                        ELSE left
                stage_id == id_generator
            IN /\ stages' = [s \in DOMAIN kept \cup {stage_id} |->
                              IF s = stage_id
                              THEN [GameStageNew(TRUE) EXCEPT !.characters =
                                      [c \in {player_id} |->
                                         CharacterNew(inp, player_info)]]
                              ELSE kept[s]]
               /\ id_generator' = id_generator + 1
       ELSE UNCHANGED <<stages, id_generator>>
    /\ UNCHANGED <<pred_stages, event_id_generator, simulation_events,
                   ev_serial, tick_calls, returned, delivered, cleared,
                   no_char_players, clientVars>>
    /\ UNCHANGED <<netVars, demoVars>>

\* client_command(JoinStage) with stages allowed: the character leaves its
\* stage, which is removed if it is not stage 0, holds no player any more
\* and is the stage of no player without a character, and joins a stage
\* add_stage creates, keeping its input and its player info.
JoinStage(player_id) ==
    /\ ~panicked
    /\ id_generator <= MaxEntityId
    /\ IF IsPlayer(stages, player_id)
       THEN LET old == PlayerStage(stages, player_id)
                inp == stages[old].characters[player_id].input
                player_info == stages[old].characters[player_id].player_info
                rest == DOMAIN stages[old].characters \ {player_id}
                left == [stages EXCEPT ![old].characters =
                           [c \in rest |-> stages[old].characters[c]]]
                kept == IF /\ old # stage_0_id
                           /\ rest = {}
                           /\ \A p \in DOMAIN no_char_players :
                                 no_char_players[p].stage_id # old
                        THEN [s \in DOMAIN left \ {old} |-> left[s]]
                        ELSE left
                stage_id == id_generator
            IN /\ stages' = [s \in DOMAIN kept \cup {stage_id} |->
                              IF s = stage_id
                              THEN [GameStageNew(TRUE) EXCEPT !.characters =
                                      [c \in {player_id} |->
                                         CharacterNew(inp, player_info)]]
                              ELSE kept[s]]
               /\ id_generator' = id_generator + 1
       ELSE UNCHANGED <<stages, id_generator>>
    /\ UNCHANGED <<pred_stages, event_id_generator, simulation_events,
                   ev_serial, tick_calls, returned, delivered, cleared,
                   no_char_players, clientVars>>
    /\ UNCHANGED <<netVars, demoVars>>

\* The stages without the character of a player.
WithoutCharacter(stgs, player_id) ==
    [s \in DOMAIN stgs |->
        [stgs[s] EXCEPT !.characters =
            [c \in DOMAIN stgs[s].characters \ {player_id} |->
                stgs[s].characters[c]]]]

\* A player without a character, as the character leaves it when it is
\* dropped after despawn_to_respawn (Dead, to respawn in its stage after
\* RespawnTicks ticks) or despawn_to_join_spectators (Spectator).
NoCharPlayerNew(no_char_type, stage_id, character) ==
    [no_char_type |-> no_char_type, stage_id |-> stage_id,
     respawn_in_ticks |-> IF no_char_type = "Dead" THEN RespawnTicks ELSE 0,
     player_input |-> character.input,
     player_info |-> character.player_info]

\* GameState::player_tick (state.rs:538-640): the dead players whose
\* respawn is due leave no_char_players and get a character in the stage
\* they died in, or in stage 0 if that stage is gone
\* (add_char_to_stage_checked, else add_char_to_stage, which unwraps);
\* there is no timeout player to kick here.
PlayerTick(stgs, no_char) ==
    LET due == {p \in DOMAIN no_char :
                  /\ no_char[p].no_char_type = "Dead"
                  /\ no_char[p].respawn_in_ticks <= 1}
        stage_of(p) == IF no_char[p].stage_id \in DOMAIN stgs
                       THEN no_char[p].stage_id ELSE stage_0_id
    IN  [panic |-> \E p \in due : stage_of(p) \notin DOMAIN stgs,
         stages |->
            [s \in DOMAIN stgs |->
               [stgs[s] EXCEPT !.characters =
                  [c \in DOMAIN stgs[s].characters
                          \cup {p \in due : stage_of(p) = s} |->
                     IF c \in due
                     THEN CharacterNew(no_char[c].player_input,
                                       no_char[c].player_info)
                     ELSE stgs[s].characters[c]]]],
         no_char_players |->
            [p \in DOMAIN no_char \ due |->
               IF no_char[p].no_char_type = "Dead"
               THEN [no_char[p] EXCEPT !.respawn_in_ticks = @ - 1]
               ELSE no_char[p]]]

\* GameState::tick: tick_impl(false), then player_tick and query_tick,
\* which finds no finished query here.
Tick ==
    /\ ~panicked
    /\ tick_calls < MaxStageTick
    /\ id_generator + Cardinality({s \in DOMAIN stages : Spawns(stages[s])})
         <= MaxEntityId + 1
    /\ LET r == TickImpl(Copies(stages, pred_stages), simulation_events,
                         [id_generator |-> id_generator,
                          ev_serial |-> ev_serial], FALSE)
           p == PlayerTick(r.copies.game, no_char_players)
       IN /\ stages' = p.stages
          /\ no_char_players' = p.no_char_players
          /\ panicked' = p.panic
          /\ pred_stages' = r.copies.pred_game
          /\ simulation_events' = r.simulation_events
          /\ id_generator' = r.ctx.id_generator
          /\ ev_serial' = r.ctx.ev_serial
    /\ tick_calls' = tick_calls + 1
    /\ UNCHANGED <<event_id_generator, returned, delivered, cleared,
                   demoVars, clientVars>>
    /\ UNCHANGED <<game, handled_snap_id, snap_storage, snap_acks,
                   input_per_tick, sent_input_ids, server_input_storage,
                   server_input, next_input_id,
                   predicted_game_monotonic_tick, auth, built, last, msg>>

\* client_command(Kill) (state.rs:1589-1610): the character of the player
\* is despawned to respawn and removed from its stage; a player without a
\* character is left as it is.
Kill(player_id) ==
    /\ ~panicked
    /\ IF IsPlayer(stages, player_id)
       THEN LET s == PlayerStage(stages, player_id)
            IN  /\ stages' = WithoutCharacter(stages, player_id)
                /\ no_char_players' =
                      [p \in DOMAIN no_char_players \cup {player_id} |->
                         IF p = player_id
                         THEN NoCharPlayerNew("Dead", s,
                                 stages[s].characters[player_id])
                         ELSE no_char_players[p]]
       ELSE UNCHANGED <<stages, no_char_players>>
    /\ UNCHANGED <<pred_stages, id_generator, event_id_generator,
                   simulation_events, ev_serial, tick_calls, returned,
                   delivered, cleared, clientVars>>
    /\ UNCHANGED <<netVars, demoVars>>

\* client_command(JoinSpectator) (state.rs:1685-1700): the character is
\* removed from its stage and despawned to the spectators.
JoinSpectator(player_id) ==
    /\ ~panicked
    /\ IF IsPlayer(stages, player_id)
       THEN LET s == PlayerStage(stages, player_id)
            IN  /\ stages' = WithoutCharacter(stages, player_id)
                /\ no_char_players' =
                      [p \in DOMAIN no_char_players \cup {player_id} |->
                         IF p = player_id
                         THEN NoCharPlayerNew("Spectator", None,
                                 stages[s].characters[player_id])
                         ELSE no_char_players[p]]
       ELSE UNCHANGED <<stages, no_char_players>>
    /\ UNCHANGED <<pred_stages, id_generator, event_id_generator,
                   simulation_events, ev_serial, tick_calls, returned,
                   delivered, cleared, clientVars>>
    /\ UNCHANGED <<netVars, demoVars>>

\* GameState::player_drop (state.rs:1482-1516): the character of the
\* player is despawned silently and removed, or the player leaves
\* no_char_players; PlayerLeft is queued on the stage of the character,
\* or on stage 0 for a player without one, looked up with unwrap. An
\* unknown id changes nothing.
PlayerDrop(player_id) ==
    /\ ~panicked
    /\ LET ev == [kind |-> "PlayerLeft", serial |-> ev_serial]
       IN  IF IsPlayer(stages, player_id)
           THEN /\ stages' =
                     [WithoutCharacter(stages, player_id)
                        EXCEPT ![PlayerStage(stages, player_id)]
                                  .simulation_events = Append(@, ev)]
                /\ ev_serial' = ev_serial + 1
                /\ UNCHANGED <<no_char_players, panicked>>
           ELSE IF player_id \in DOMAIN no_char_players
           THEN /\ no_char_players' =
                     [p \in DOMAIN no_char_players \ {player_id} |->
                        no_char_players[p]]
                /\ IF stage_0_id \in DOMAIN stages
                   THEN /\ stages' =
                             [stages EXCEPT ![stage_0_id].simulation_events =
                                 Append(@, ev)]
                        /\ ev_serial' = ev_serial + 1
                        /\ UNCHANGED panicked
                   ELSE /\ panicked' = TRUE
                        /\ UNCHANGED <<stages, ev_serial>>
           ELSE UNCHANGED <<stages, no_char_players, ev_serial, panicked>>
    /\ UNCHANGED <<pred_stages, id_generator, event_id_generator,
                   simulation_events, tick_calls, returned, delivered,
                   cleared, demoVars, clientVars>>
    /\ UNCHANGED <<game, handled_snap_id, snap_storage, snap_acks,
                   input_per_tick, sent_input_ids, server_input_storage,
                   server_input, next_input_id,
                   predicted_game_monotonic_tick, auth, built, last, msg>>

\* An id that is no player's.
UnknownId == MaxEntityId + 1

\* The inputs a pred_tick call may carry: an input for every player, no
\* input at all, or an input for an id that is no player's.
PredInputs ==
    [Players(stages) -> Inputs] \cup {EmptyMap, [p \in {UnknownId} |-> 1]}

\* GameState::pred_tick. The unwraps of set_player_inp_impl succeed: the
\* prediction stages were rebuilt from the authoritative ones just before.
PredTick(inps) ==
    /\ ~panicked
    /\ LET r == PredTickResult(Copies(stages, pred_stages), simulation_events,
                               [id_generator |-> id_generator,
                                ev_serial |-> ev_serial], inps)
       IN /\ stages' = r.copies.game
          /\ pred_stages' = r.copies.pred_game
          /\ simulation_events' = r.simulation_events
          /\ id_generator' = r.ctx.id_generator
          /\ ev_serial' = r.ctx.ev_serial
    /\ UNCHANGED <<event_id_generator, tick_calls, returned, delivered,
                   cleared,
                   no_char_players, clientVars>>
    /\ UNCHANGED <<netVars, demoVars>>

\* The snapshot bytes a caller may hand to build_from_snapshot_for_pred:
\* the current authoritative state, a state without stages, or bytes that
\* do not decode.
PredSnapshots ==
    {[decodable |-> TRUE, stages |-> BuildStages(stages)],
     [decodable |-> TRUE, stages |-> EmptyMap],
     [decodable |-> FALSE, stages |-> EmptyMap]}

\* GameState::build_from_snapshot_for_pred: decode_from_slice(..).unwrap(),
\* then build_pred_from_stages(snapshot.stages).
BuildFromSnapshotForPred(snapshot) ==
    /\ ~panicked
    /\ IF snapshot.decodable
       THEN /\ pred_stages' = BuildPredFromStages(snapshot.stages)
            /\ UNCHANGED panicked
       ELSE /\ panicked' = TRUE
            /\ UNCHANGED pred_stages
    /\ UNCHANGED <<stages, id_generator, event_id_generator,
                   simulation_events, ev_serial, tick_calls, returned,
                   delivered, cleared,
                   no_char_players, clientVars>>
    /\ UNCHANGED <<game, handled_snap_id, snap_storage, snap_acks,
                   input_per_tick, sent_input_ids, server_input_storage,
                   server_input, next_input_id,
                   predicted_game_monotonic_tick, auth, built,
                   last, msg>>
    /\ UNCHANGED demoVars

\* The serial numbers of the events in a map from worlds to events.
WorldsSerials(worlds) ==
    UNION {{worlds[w][i].serial : i \in 1..Len(worlds[w])} :
             w \in DOMAIN worlds}

\* GameState::events_for(client): the queued events are read, not taken;
\* every event of the result takes the next event id. The client given
\* plays no part.
EventsFor(client) ==
    /\ ~panicked
    /\ LET r == EventsForWorlds(DOMAIN simulation_events, simulation_events,
                                event_id_generator, EmptyMap)
       IN /\ r.event_id <= MaxEventId
          /\ returned' = r
          /\ event_id_generator' = r.event_id
          /\ delivered' = [delivered EXCEPT
                             ![client] = @ \cup WorldsSerials(r.worlds)]
    /\ UNCHANGED <<stages, pred_stages, id_generator, simulation_events,
                   ev_serial, tick_calls, cleared,
                   no_char_players, clientVars>>
    /\ UNCHANGED <<netVars, demoVars>>

\* GameState::clear_events: simulation_events.take().
ClearEvents ==
    /\ ~panicked
    /\ simulation_events' = EmptyMap
    /\ cleared' = cleared \cup WorldsSerials(simulation_events)
    /\ UNCHANGED <<stages, pred_stages, id_generator, event_id_generator,
                   ev_serial, tick_calls, returned, delivered,
                   no_char_players, clientVars>>
    /\ UNCHANGED <<netVars, demoVars>>

\* ------------------------------------------------------- specification
InitState ==
    /\ game = "None"
    /\ panicked = FALSE
    /\ GameDataNew
    /\ ClientNew
    /\ last = NoLast
    /\ GameStateNew
    /\ DemoNew

\* GameState::try_overwrite_player_character_info (state.rs:1518-1552):
\* the info and the version of the player's character are replaced if the
\* stored version is below the given one; a player that has no character
\* is looked up among the players without one, of which there is none
\* here, and an id found in neither place panics.
TryOverwritePlayerCharacterInfo_OrEqual(id, info, version) ==
    /\ ~panicked
    /\ IF IsPlayer(stages, id)
       THEN LET s == PlayerStage(stages, id)
                player_info == stages[s].characters[id].player_info
            IN /\ stages' = IF player_info.version <= version
                            THEN [stages EXCEPT
                                    ![s].characters[id].player_info =
                                       [info |-> info, version |-> version]]
                            ELSE stages
               /\ UNCHANGED panicked
       ELSE panicked' = TRUE /\ UNCHANGED stages
    /\ UNCHANGED <<pred_stages, id_generator, event_id_generator,
                   simulation_events, ev_serial, tick_calls, returned,
                   delivered, cleared, demoVars,
                   no_char_players, clientVars>>
    /\ UNCHANGED <<game, handled_snap_id, snap_storage, snap_acks,
                   input_per_tick, sent_input_ids, server_input_storage,
                   server_input, next_input_id,
                   predicted_game_monotonic_tick, auth, built, last, msg>>

TryOverwritePlayerCharacterInfo(id, info, version) ==
    /\ ~panicked
    /\ IF IsPlayer(stages, id)
       THEN LET s == PlayerStage(stages, id)
                player_info == stages[s].characters[id].player_info
            IN /\ stages' = IF player_info.version < version
                            THEN [stages EXCEPT
                                    ![s].characters[id].player_info =
                                       [info |-> info, version |-> version]]
                            ELSE stages
               /\ UNCHANGED panicked
       ELSE panicked' = TRUE /\ UNCHANGED stages
    /\ UNCHANGED <<pred_stages, id_generator, event_id_generator,
                   simulation_events, ev_serial, tick_calls, returned,
                   delivered, cleared, demoVars,
                   no_char_players, clientVars>>
    /\ UNCHANGED <<game, handled_snap_id, snap_storage, snap_acks,
                   input_per_tick, sent_input_ids, server_input_storage,
                   server_input, next_input_id,
                   predicted_game_monotonic_tick, auth, built, last, msg>>

SetPlayerInputStep ==
    \E player_id \in Players(stages) \cup {UnknownId}, inp \in Inputs :
        SetPlayerInput(player_id, inp)

JoinStageStep ==
    \E player_id \in Players(stages) \cup {UnknownId} : JoinStage(player_id)

PredTickStep == \E inps \in PredInputs : PredTick(inps)

BuildFromSnapshotForPredStep ==
    \E snapshot \in PredSnapshots : BuildFromSnapshotForPred(snapshot)

EventsForStep == \E client \in Recipients : EventsFor(client)

NextState ==
    \/ PlayerJoin
    \/ SetPlayerInputStep
    \/ JoinStageStep
    \/ Tick
    \/ PredTickStep
    \/ BuildFromSnapshotForPredStep

SpecState == InitState /\ [][NextState]_vars

\* The players: they join, are dropped, kill their character, change
\* stage, join the spectators and are ticked.
NextPlayers ==
    \/ PlayerJoin
    \/ Tick
    \/ \E player_id \in Players(stages) \cup DOMAIN no_char_players
                        \cup {UnknownId} :
          \/ PlayerDrop(player_id)
          \/ Kill(player_id)
          \/ JoinStage(player_id)
          \/ JoinSpectator(player_id)

SpecPlayers == InitState /\ [][NextPlayers]_vars

\* The player infos: players join, change stage, are ticked and have
\* their character info overwritten.
NextInfo ==
    \/ PlayerJoin
    \/ JoinStageStep
    \/ Tick
    \/ \E id \in Players(stages) \cup {UnknownId},
          info \in 1..MaxInfoVersion, version \in 1..MaxInfoVersion :
          TryOverwritePlayerCharacterInfo(id, info, version)

SpecInfo == InitState /\ [][NextInfo]_vars

\* The event queue: the operations that produce, return and clear events.
NextEvents ==
    \/ PlayerJoin
    \/ SetPlayerInputStep
    \/ JoinStageStep
    \/ Tick
    \/ EventsForStep
    \/ ClearEvents

SpecEvents == InitState /\ [][NextEvents]_vars

\* ========================================================= demo recorder
\* The maps of the recorder are ascending sequences of ticks; a chunk is
\* such a sequence with its kind.
LastOf(data) == data[Len(data)]

\* ------------------------------------------------------------ recorder
\* lib.rs:530-540: the key at position DATA_PER_CHUNK_TO_WRITE, found from
\* the front or from the back.
GetChunksTh(data) ==
    LET count == Len(data)
    IN  IF count >= DATA_PER_CHUNK_TO_WRITE * 2
        THEN data[DATA_PER_CHUNK_TO_WRITE + 1]
        ELSE data[count - ((count - 1) - DATA_PER_CHUNK_TO_WRITE)]

\* A flush as soon as the map holds more than 1500 entries.
ShouldWrite_CountOnly(data) == Len(data) > DATA_PER_CHUNK_TO_WRITE

\* lib.rs:544-551: more than 1500 entries, and the newest is more than 3
\* seconds of ticks after the key.
ShouldWrite(data) ==
    /\ Len(data) > DATA_PER_CHUNK_TO_WRITE
    /\ LastOf(data) - GetChunksTh(data) > TicksPerSecond * SECONDS_UNTIL_WRITE

\* The older part is sent as a copy and stays in the map as well.
TryWriteChunks_Copy(data) ==
    IF ShouldWrite(data)
    THEN LET key == GetChunksTh(data)
         IN  [data |-> data,
              chunks |-> <<SelectSeq(data, LAMBDA t : t < key)>>]
    ELSE [data |-> data, chunks |-> <<>>]

\* lib.rs:524-563: data.split_off(&key) keeps the entries before key in
\* place; the two are then swapped and the older part is sent.
TryWriteChunks(data) ==
    IF ShouldWrite(data)
    THEN LET key == GetChunksTh(data)
         IN  [data |-> SelectSeq(data, LAMBDA t : t >= key),
              chunks |-> <<SelectSeq(data, LAMBDA t : t < key)>>]
    ELSE [data |-> data, chunks |-> <<>>]

\* Every tick is accepted.
CanAddChunk_Always(monotonic_tick, data) == TRUE

\* lib.rs:565-576
CanAddChunk(monotonic_tick, data) ==
    \/ data = <<>>
    \/ monotonic_tick >= LastOf(data)
    \/ LastOf(data) - monotonic_tick <= TicksPerSecond * SECONDS_UNTIL_WRITE

\* BTreeMap::entry(monotonic_tick).or_default()
InsertTick(data, monotonic_tick) ==
    SelectSeq(data, LAMBDA t : t < monotonic_tick)
        \o <<monotonic_tick>>
        \o SelectSeq(data, LAMBDA t : t > monotonic_tick)

\* The chunks of one kind.
AsChunks(kind, tick_seqs) ==
    [i \in 1..Len(tick_seqs) |-> [kind |-> kind, ticks |-> tick_seqs[i]]]

\* thread_sender.send(..).unwrap()
Send_Unwrap(rec, chunks) ==
    IF writer_thread.state = "running" \/ chunks = <<>>
    THEN [rec EXCEPT !.channel = @ \o chunks, !.sent_chunks = @ \o chunks]
    ELSE [rec EXCEPT !.panicked = TRUE]

\* let _ = thread_sender.send(..): the chunks reach the channel, which has
\* no bound, unless the writer thread is gone; the Err is ignored.
Send(rec, chunks) ==
    [rec EXCEPT !.channel = IF writer_thread.state = "running"
                            THEN @ \o chunks ELSE @,
                !.sent_chunks = @ \o chunks]

\* lib.rs:578-593 (add_snapshot) and 595-610 (add_event)
AddChunk(rec, kind, data, monotonic_tick) ==
    LET w     == TryWriteChunks(data)
        added == IF CanAddChunk(monotonic_tick, w.data)
                 THEN InsertTick(w.data, monotonic_tick)
                 ELSE w.data
        r     == Send(rec, AsChunks(kind, w.chunks))
    IN  IF kind = "Snapshots" THEN [r EXCEPT !.snapshots = added]
        ELSE [r EXCEPT !.events = added]

\* Ticks arrive in order while the map fills, then freely: late by more or
\* less than 3 seconds, again, next, or after a gap of more than 3 seconds,
\* or as late as the first tick a recording can start with.
Filling(data) ==
    data # <<>> /\ LastOf(data) + 1 < DATA_PER_CHUNK_TO_WRITE - RecFree

SnapshotTicks(data) ==
    IF data = <<>> THEN 0..RecStart
    ELSE IF Filling(data) THEN {LastOf(data) + 1}
    ELSE {t \in {0,
                 LastOf(data) - (TicksPerSecond * SECONDS_UNTIL_WRITE + 1),
                 LastOf(data) - 1, LastOf(data), LastOf(data) + 1,
                 LastOf(data) + TicksPerSecond * SECONDS_UNTIL_WRITE + 1} :
             t >= 0
             /\ t < DATA_PER_CHUNK_TO_WRITE
                     + TicksPerSecond * SECONDS_UNTIL_WRITE + RecOver}

\* The recorder holds few snapshots, or the map has filled.
Settled ==
    \/ Len(recorder.snapshots) <= RecEarly
    \/ ~Filling(recorder.snapshots)

AddSnapshot ==
    /\ ~recorder.dropped /\ ~recorder.panicked
    /\ \E monotonic_tick \in SnapshotTicks(recorder.snapshots) :
          recorder' = AddChunk(recorder, "Snapshots", recorder.snapshots,
                               monotonic_tick)
    /\ UNCHANGED <<writer_thread, chunk_io, netVars, stateVars>>

AddEvent ==
    /\ ~recorder.dropped /\ ~recorder.panicked
    /\ Settled
    /\ \E monotonic_tick \in 0..(RecEvents - 1) :
          recorder' = AddChunk(recorder, "Events", recorder.events,
                               monotonic_tick)
    /\ UNCHANGED <<writer_thread, chunk_io, netVars, stateVars>>

\* The number of events a map holds for the ticks given.
RECURSIVE EventsIn(_, _)
EventsIn(events, ticks) ==
    IF ticks = <<>> THEN 0
    ELSE Len(events[Head(ticks)]) + EventsIn(events, Tail(ticks))

\* An entry whose tick holds the last event only.
EntryAfter_OnlyLast(kind, held, monotonic_tick, value) ==
    [t \in DOMAIN held \cup {monotonic_tick} |->
        IF t # monotonic_tick THEN held[t]
        ELSE IF kind = "Snapshots" THEN value ELSE <<value>>]

\* lib.rs:588-591 and 605-608: entry(monotonic_tick).or_default(), then
\* `*entry = snapshot` for a snapshot and entry.push(event) for an event.
EntryAfter(kind, held, monotonic_tick, value) ==
    [t \in DOMAIN held \cup {monotonic_tick} |->
        IF t # monotonic_tick THEN held[t]
        ELSE IF kind = "Snapshots" THEN value
        ELSE (IF t \in DOMAIN held THEN held[t] ELSE <<>>) \o <<value>>]

\* add_snapshot and add_event (lib.rs:578-610) with what is recorded for
\* the tick: a flush first, then the entry if can_add_chunk accepts its
\* tick. The two maps hold at most MaxHeld snapshots and events together
\* here.
AddEntry(kind, monotonic_tick, value) ==
    /\ ~recorder.dropped /\ ~recorder.panicked
    /\ LET data == IF kind = "Snapshots" THEN recorder.snapshots
                   ELSE recorder.events
           held == recorder.entries[kind]
           r    == AddChunk(recorder, kind, data, monotonic_tick)
           kept == IF kind = "Snapshots" THEN r.snapshots ELSE r.events
           after == IF CanAddChunk(monotonic_tick, TryWriteChunks(data).data)
                    THEN EntryAfter(kind, held, monotonic_tick, value)
                    ELSE held
       IN  /\ recorder' = [r EXCEPT !.entries[kind] =
                             [t \in DOMAIN after \cap SeqToSet(kept) |->
                                after[t]]]
           /\ Len(recorder'.snapshots)
                + EventsIn(recorder'.entries.Events, recorder'.events)
                <= MaxHeld
    /\ UNCHANGED <<writer_thread, chunk_io, netVars, stateVars>>

\* A drop that sends what is left as one chunk, however long.
ChunksOf_Whole(data) == IF data = <<>> THEN <<>> ELSE <<data>>

\* lib.rs:616-632 (check_write): the entries in groups of 1500, in order.
ChunksOf(data) ==
    [i \in 1..((Len(data) + DATA_PER_CHUNK_TO_WRITE - 1)
                 \div DATA_PER_CHUNK_TO_WRITE) |->
        SubSeq(data, (i - 1) * DATA_PER_CHUNK_TO_WRITE + 1,
               IF i * DATA_PER_CHUNK_TO_WRITE < Len(data)
               THEN i * DATA_PER_CHUNK_TO_WRITE ELSE Len(data))]

\* lib.rs:613-641: Drop for DemoRecorder; thread_sender is dropped with it.
Drop ==
    /\ ~recorder.dropped /\ ~recorder.panicked
    /\ Settled
    /\ recorder' =
         [Send(Send(recorder,
                    AsChunks("Snapshots", ChunksOf(recorder.snapshots))),
               AsChunks("Events", ChunksOf(recorder.events)))
          EXCEPT !.snapshots = <<>>, !.events = <<>>, !.dropped = TRUE,
                 !.entries = DemoRecorderNew.entries]
    /\ UNCHANGED <<writer_thread, chunk_io, netVars, stateVars>>

\* -------------------------------------------------------- writer thread
\* lib.rs:415-428: the three ensure!s, with first_monotonic and
\* last_monotonic as they were before the chunk.
NotMonotonic(first_tick, last_tick, first_monotonic, last_monotonic) ==
    LET monotonic_first_tick ==
            IF first_monotonic = None THEN first_tick ELSE first_monotonic
    IN  \/ monotonic_first_tick > first_tick
        \/ last_tick < (IF last_monotonic = None THEN 0 ELSE last_monotonic)
        \/ last_tick < monotonic_first_tick

\* The offset of every chunk in its own index.
Indexed_Absolute(index, first_tick, size) ==
    [t \in DOMAIN index \cup {first_tick} |->
        IF t = first_tick THEN size ELSE index[t]]

\* lib.rs:407: index.insert(first_tick, size.get() - size_before_chunks)
Indexed(index, first_tick, size) ==
    [t \in DOMAIN index \cup {first_tick} |->
        IF t = first_tick THEN size - HeaderBytes ELSE index[t]]

\* The length of what write_chunk returns for a chunk (lib.rs:327-380):
\* the size, the frame and the count, and for each entry its header and
\* its data, which take four bytes when the payload is empty.
ChunkLen(c) == 3 + 4 * Len(c.ticks)

\* lib.rs:383-430 (serialize_and_write_chunk): an empty chunk is an Err at
\* once; otherwise the chunk is indexed and written, and then checked.
SerializeAndWriteChunk(w, c) ==
    IF c.ticks = <<>> THEN [w EXCEPT !.state = "failed"]
    ELSE
    LET first_tick == c.ticks[1]
        last_tick  == LastOf(c.ticks)
        snaps      == c.kind = "Snapshots"
        first_monotonic == IF snaps THEN w.first_monotonic_snaps
                           ELSE w.first_monotonic_events
        last_monotonic  == IF snaps THEN w.last_monotonic_snaps
                           ELSE w.last_monotonic_events
        first_after == IF first_monotonic = None THEN first_tick
                       ELSE first_monotonic
        failed == NotMonotonic(first_tick, last_tick, first_monotonic,
                               last_monotonic)
        last_after == IF last_tick <
                           (IF last_monotonic = None THEN 0 ELSE last_monotonic)
                      THEN last_monotonic ELSE last_tick
        written == [w EXCEPT !.file = Append(@, c),
                             !.size = @ + ChunkLen(c),
                             !.state = IF failed THEN "failed" ELSE @]
    IN  IF snaps
        THEN [written EXCEPT !.snapshots_index =
                                 Indexed(@, first_tick, w.size),
                             !.first_monotonic_snaps = first_after,
                             !.last_monotonic_snaps = last_after]
        ELSE [written EXCEPT !.events_index =
                                 Indexed(@, first_tick, w.size),
                             !.first_monotonic_events = first_after,
                             !.last_monotonic_events = last_after]

\* lib.rs:432-465: while let Ok(event) = recv.recv()
WriterRecv ==
    /\ writer_thread.state = "running"
    /\ recorder.channel # <<>>
    /\ writer_thread' = SerializeAndWriteChunk(writer_thread,
                                               Head(recorder.channel))
    /\ recorder' = [recorder EXCEPT !.channel = Tail(@)]
    /\ UNCHANGED <<chunk_io, netVars, stateVars>>

\* Option::or, then Option::min / Option::max (lib.rs:471-474).
OptOr(a, b) == IF a # None THEN a ELSE b

\* A length counted from tick 0.
HeaderLen_FromZero(first_monotonic, last_monotonic) ==
    [secs  |-> last_monotonic \div TicksPerSecond,
     nanos |-> (last_monotonic % TicksPerSecond)
                 * (NanosPerSecond \div TicksPerSecond)]

\* lib.rs:489-496: DemoHeader::len
HeaderLen(first_monotonic, last_monotonic) ==
    [secs  |-> (last_monotonic - first_monotonic) \div TicksPerSecond,
     nanos |-> ((last_monotonic - first_monotonic) % TicksPerSecond)
                 * (NanosPerSecond \div TicksPerSecond)]

\* The file gets its final name before the final header is written.
Finish_NameFirst(w, first_monotonic, last_monotonic) ==
    IF w.state = "running"
    THEN IF first_monotonic # None /\ last_monotonic # None
         THEN [w EXCEPT !.state = "tail"]
         ELSE [w EXCEPT !.state = "finished"]
    ELSE IF w.state = "tail"
    THEN [w EXCEPT !.state = "header", !.named = TRUE]
    ELSE [w EXCEPT !.state = "finished",
                   !.header = [len |-> HeaderLen(first_monotonic,
                                                 last_monotonic),
                               size_chunks |-> w.size - HeaderBytes,
                               final |-> TRUE]]

\* lib.rs:467-512, one write at a time: the tail if a chunk was written
\* (476-487), then the final header at the start of the file (489-507),
\* then the file is kept under its final name (509-512).
Finish(w, first_monotonic, last_monotonic) ==
    IF w.state = "running"
    THEN IF first_monotonic # None /\ last_monotonic # None
         THEN [w EXCEPT !.state = "tail"]
         ELSE [w EXCEPT !.state = "finished"]
    ELSE IF w.state = "tail"
    THEN [w EXCEPT !.state = "header",
                   !.header = [len |-> HeaderLen(first_monotonic,
                                                 last_monotonic),
                               size_chunks |-> w.size - HeaderBytes,
                               final |-> TRUE]]
    ELSE [w EXCEPT !.state = "finished", !.named = TRUE]

\* recv() fails as soon as the sender is dropped, whatever the channel
\* still holds.
WriterFinish_OnDisconnect ==
    /\ writer_thread.state \in {"running", "tail", "header"}
    /\ writer_thread.state = "running" => recorder.dropped
    /\ LET w == writer_thread
           first_monotonic ==
               LET a == OptOr(w.first_monotonic_snaps, w.first_monotonic_events)
                   b == OptOr(w.first_monotonic_events, w.first_monotonic_snaps)
               IN  IF a <= b THEN a ELSE b
           last_monotonic ==
               LET a == OptOr(w.last_monotonic_snaps, w.last_monotonic_events)
                   b == OptOr(w.last_monotonic_events, w.last_monotonic_snaps)
               IN  IF a >= b THEN a ELSE b
       IN  writer_thread' = Finish(w, first_monotonic, last_monotonic)
    /\ UNCHANGED <<recorder, chunk_io, netVars, stateVars>>

\* lib.rs:467-512: recv() fails once the sender is dropped and the channel
\* is empty; the function then goes on to its end.
WriterFinish ==
    /\ writer_thread.state \in {"running", "tail", "header"}
    /\ writer_thread.state = "running" =>
          recorder.channel = <<>> /\ recorder.dropped
    /\ LET w == writer_thread
           first_monotonic ==
               LET a == OptOr(w.first_monotonic_snaps, w.first_monotonic_events)
                   b == OptOr(w.first_monotonic_events, w.first_monotonic_snaps)
               IN  IF a <= b THEN a ELSE b
           last_monotonic ==
               LET a == OptOr(w.last_monotonic_snaps, w.last_monotonic_events)
                   b == OptOr(w.last_monotonic_events, w.last_monotonic_snaps)
               IN  IF a >= b THEN a ELSE b
       IN  writer_thread' = Finish(w, first_monotonic, last_monotonic)
    /\ UNCHANGED <<recorder, chunk_io, netVars, stateVars>>

\* Any write to the disk may fail (the ? after write, write_all, flush, keep
\* and rename): writer_thread_run returns the error.
WriterFail ==
    /\ writer_thread.state \in {"running", "tail", "header"}
    /\ writer_thread' = [writer_thread EXCEPT !.state = "failed"]
    /\ UNCHANGED <<recorder, chunk_io, netVars, stateVars>>

\* ============================================================== profiles
\* tokio::sync::Notify::notify_one: a waiting caller is woken, or the
\* permit is stored.
NotifyOne(p, n) ==
    IF p.waiting[n] > 0
    THEN [p EXCEPT !.waiting[n] = @ - 1, !.woken[n] = @ + 1]
    ELSE [p EXCEPT !.permits = @ \cup {n}]

\* Notify::notified().await: a stored permit is taken at once, otherwise
\* the caller waits.
Notified(p, n) ==
    IF n \in p.permits
    THEN [p EXCEPT !.permits = @ \ {n}, !.woken[n] = @ + 1]
    ELSE [p EXCEPT !.waiting[n] = @ + 1]

\* profiles.rs:402-406 and 462-534: the state is set to Fetching with a
\* new notifier and the fetch task is spawned, which the caller awaits.
FetchUrgent(p) ==
    LET n == p.calls
    IN  [p EXCEPT !.cur_cert = "Fetching", !.notifier = n,
                  !.tasks[n] = "signing", !.joined[n] = TRUE]

\* Profiles::signed_cert_and_key_pair (profiles.rs:378-560) of the current
\* profile up to its first await. expiry tells how close the held
\* certificate is to its end: "urgent" within ten minutes, "half" past
\* half of its lifetime, "fresh" else. A caller that neither waits nor
\* awaits a task returns with what the state holds.
SignedCertAndKeyPair(expiry) ==
    /\ profile.calls < MaxCalls
    /\ LET p == [profile EXCEPT !.calls = @ + 1]
           n == p.calls
       IN  profile' =
             CASE p.cur_cert = "None" -> FetchUrgent(p)
               [] p.cur_cert = "Fetching" -> Notified(p, p.notifier)
               [] p.cur_cert = "CertAndKeys" ->
                    IF expiry = "urgent" THEN FetchUrgent(p)
                    ELSE IF expiry = "half"
                    THEN [p EXCEPT !.cur_cert = "CertAndKeysAndFetch",
                                   !.notifier = n,
                                   !.tasks[n] = "signing"]
                    ELSE p
               [] p.cur_cert = "CertAndKeysAndFetch" ->
                    IF expiry = "urgent"
                    THEN Notified([p EXCEPT !.cur_cert = "Fetching"],
                                  p.notifier)
                    ELSE p
    /\ UNCHANGED <<netVars, demoVars, game_event_generator>>
    /\ UNCHANGED <<stages, pred_stages, id_generator, event_id_generator,
                   simulation_events, ev_serial, tick_calls, returned,
                   delivered, cleared, no_char_players>>

\* profiles.rs:467-525: the sign request of the task spawned with notifier
\* n completes. A certificate that parses becomes the state and the task
\* notifies and ends; one that does not parse leaves the state as it is;
\* an error sets the state to None. In the last two cases the task goes
\* on to make a self signed certificate before it notifies.
SignCompletes(n, sign) ==
    /\ profile.tasks[n] = "signing"
    /\ profile' =
          CASE sign = "Ok" ->
                 NotifyOne([profile EXCEPT !.cur_cert = "CertAndKeys",
                                           !.tasks[n] = "finished",
                                           !.joined[n] = FALSE], n)
            [] sign = "InvalidCertificate" ->
                 [profile EXCEPT !.tasks[n] = "fallback"]
            [] sign = "Err" ->
                 [profile EXCEPT !.cur_cert = "None",
                                 !.tasks[n] = "fallback"]
    /\ UNCHANGED <<netVars, demoVars, game_event_generator>>
    /\ UNCHANGED <<stages, pred_stages, id_generator, event_id_generator,
                   simulation_events, ev_serial, tick_calls, returned,
                   delivered, cleared, no_char_players>>

\* profiles.rs:526-527: the task notifies and ends; the caller that
\* awaited it returns.
TaskEnds(n) ==
    /\ profile.tasks[n] = "fallback"
    /\ profile' = NotifyOne([profile EXCEPT !.tasks[n] = "finished",
                                            !.joined[n] = FALSE], n)
    /\ UNCHANGED <<netVars, demoVars, game_event_generator>>
    /\ UNCHANGED <<stages, pred_stages, id_generator, event_id_generator,
                   simulation_events, ev_serial, tick_calls, returned,
                   delivered, cleared, no_char_players>>

\* profiles.rs:456-460 and 541-555: a woken caller notifies the next one
\* and returns with what the state holds.
Resume(n) ==
    /\ profile.woken[n] > 0
    /\ profile' = NotifyOne([profile EXCEPT !.woken[n] = @ - 1], n)
    /\ UNCHANGED <<netVars, demoVars, game_event_generator>>
    /\ UNCHANGED <<stages, pred_stages, id_generator, event_id_generator,
                   simulation_events, ev_serial, tick_calls, returned,
                   delivered, cleared, no_char_players>>

\* ----------------------------------------------------------- SpecProfiles
NextProfiles ==
    \/ \E expiry \in {"fresh", "half", "urgent"} :
          SignedCertAndKeyPair(expiry)
    \/ \E n \in 1..MaxCalls :
          \/ \E sign \in {"Ok", "InvalidCertificate", "Err"} :
                SignCompletes(n, sign)
          \/ TaskEnds(n)
          \/ Resume(n)

SpecProfiles == InitState /\ [][NextProfiles]_vars

\* The tasks and the woken callers get to run.
SpecProfilesLive ==
    /\ SpecProfiles
    /\ \A n \in 1..MaxCalls :
          /\ WF_vars(\E sign \in {"Ok", "InvalidCertificate", "Err"} :
                        SignCompletes(n, sign))
          /\ WF_vars(TaskEnds(n))
          /\ WF_vars(Resume(n))

\* ---------------------------------------------------------- SpecRecorder
NextRecorder ==
    AddSnapshot \/ AddEvent \/ Drop \/ WriterRecv \/ WriterFinish \/ WriterFail

SpecRecorder == InitState /\ [][NextRecorder]_vars

\* The writer thread is a thread of its own (lib.rs:222-233): while it can
\* take a chunk or go on to its end, it does.
SpecRecorderLive ==
    SpecRecorder /\ WF_vars(WriterRecv) /\ WF_vars(WriterFinish)

\* --------------------------------------------------------------- SpecAdd
\* The first entries of a recording, for ticks in any order; a snapshot or
\* an event is one of two.
EntryValues == {0, 1}

NextAdd ==
    \E kind \in {"Snapshots", "Events"}, monotonic_tick \in 0..MaxAddTick,
       value \in EntryValues :
       AddEntry(kind, monotonic_tick, value)

SpecAdd == InitState /\ [][NextAdd]_vars

\* ------------------------------------------------------------ SpecWriter
\* Someone holding the sender gives the writer thread a chunk of its own,
\* whose ticks are any ascending sequence, the empty one included.
SendChunk ==
    /\ ~recorder.dropped
    /\ Len(recorder.sent_chunks) < MaxChunks
    /\ \E kind \in {"Snapshots", "Events"},
          ticks \in {<<>>} \cup {<<a>> : a \in 0..MaxChunkTick}
                           \cup {<<a, b>> : a \in 0..MaxChunkTick,
                                            b \in 0..MaxChunkTick} :
          /\ Len(ticks) = 2 => ticks[1] < ticks[2]
          /\ recorder' = Send(recorder, AsChunks(kind, <<ticks>>))
    /\ UNCHANGED <<writer_thread, chunk_io, netVars, stateVars>>

NextWriter == SendChunk \/ Drop \/ WriterRecv \/ WriterFinish \/ WriterFail

SpecWriter == InitState /\ [][NextWriter]_vars

\* ------------------------------------------- write_chunk and read_chunks
\* Bytes are sequences of numbers; a u64 takes one place. A chunk is a map
\* from ticks to payloads (Vec<u8>).
Err == [ok |-> FALSE, bytes |-> <<>>]
Ok(bytes) == [ok |-> TRUE, bytes |-> bytes]

\* bincode of a Vec<u8>: its length, then its bytes.
Ser(data) == <<Len(data)>> \o data
Deser(bytes) ==
    IF bytes # <<>> /\ bytes[1] = Len(bytes) - 1 THEN Ok(Tail(bytes)) ELSE Err

\* zstd: a frame around the bytes, which starts with the byte 40.
Comp(v) == <<40>> \o v
Decomp(v) == IF v # <<>> /\ v[1] = 40 THEN Ok(Tail(v)) ELSE Err

At(bytes, i) == IF i <= Len(bytes) THEN bytes[i] ELSE 0

\* bin_patch::diff: the length of the target, then its bytes as offsets
\* from the base; bin_patch::patch adds them back.
Diff(base, target) ==
    <<Len(target)>>
        \o [i \in 1..Len(target) |-> (target[i] - At(base, i)) % 256]
Patch(base, patch) ==
    IF patch # <<>> /\ patch[1] = Len(patch) - 1
    THEN Ok([i \in 1..(Len(patch) - 1) |->
                (patch[i + 1] + At(base, i)) % 256])
    ELSE Err

\* Records that are diffed against the bytes written for the record before.
RECURSIVE WriteRecords_AgainstWritten(_, _, _)
WriteRecords_AgainstWritten(c, ticks, last_data) ==
    IF ticks = {} THEN <<>>
    ELSE LET monotonic_tick  == SetMin(ticks)
             data_serialized == Ser(c[monotonic_tick])
             data == IF last_data # <<>>
                     THEN Diff(last_data, data_serialized)
                     ELSE Comp(data_serialized)
         IN  <<monotonic_tick, Len(data)>> \o data
               \o WriteRecords_AgainstWritten(c, ticks \ {monotonic_tick},
                                              data)

\* lib.rs:341-369: for every entry in key order a ChunkHeader and the data,
\* compressed for the first entry and diffed against the serialization of
\* the entry before for the others.
RECURSIVE WriteRecords(_, _, _)
WriteRecords(c, ticks, last_data) ==
    IF ticks = {} THEN <<>>
    ELSE LET monotonic_tick  == SetMin(ticks)
             data_serialized == Ser(c[monotonic_tick])
             data == IF last_data # <<>>
                     THEN Diff(last_data, data_serialized)
                     ELSE Comp(data_serialized)
         IN  <<monotonic_tick, Len(data)>> \o data
               \o WriteRecords(c, ticks \ {monotonic_tick}, data_serialized)

\* lib.rs:327-380 (write_chunk): the count and the records, compressed as a
\* whole, behind the size of the compressed bytes.
WriteChunk(c) ==
    LET inner == <<Cardinality(DOMAIN c)>> \o WriteRecords(c, DOMAIN c, <<>>)
    IN  <<Len(Comp(inner))>> \o Comp(inner)

NoRead == [ok |-> FALSE, res |-> <<>>]

\* lib.rs:727-754: the loop over the records of read_chunks.
RECURSIVE ReadRecords(_, _, _, _)
ReadRecords(bytes, n, last_data, res) ==
    IF n = 0 THEN [ok |-> TRUE, res |-> res]
    ELSE IF Len(bytes) < 2 THEN NoRead
    ELSE LET monotonic_tick == bytes[1]
             size == bytes[2]
             rest == SubSeq(bytes, 3, Len(bytes))
         IN  IF size = 0 THEN ReadRecords(rest, n - 1, last_data, res)
             ELSE IF size > Len(rest) THEN NoRead
             ELSE LET data_slice == SubSeq(rest, 1, size)
                      decoded == IF last_data # <<>>
                                 THEN Patch(last_data, data_slice)
                                 ELSE Decomp(data_slice)
                      data == Deser(decoded.bytes)
                  IN  IF ~decoded.ok \/ ~data.ok THEN NoRead
                      ELSE ReadRecords(
                             SubSeq(rest, size + 1, Len(rest)), n - 1,
                             decoded.bytes,
                             [t \in DOMAIN res \cup {monotonic_tick} |->
                                 IF t = monotonic_tick THEN data.bytes
                                 ELSE res[t]])

\* lib.rs:684-757 (read_chunks)
ReadChunks(bytes) ==
    IF Len(bytes) < 1 \/ bytes[1] > Len(bytes) - 1 THEN NoRead
    ELSE LET data == Decomp(SubSeq(bytes, 2, bytes[1] + 1))
         IN  IF ~data.ok \/ data.bytes = <<>> THEN NoRead
             ELSE ReadRecords(Tail(data.bytes), data.bytes[1], <<>>,
                              EmptyMap)

\* ------------------------------------------------------------- SpecChunk
InitChunk ==
    /\ game = "None"
    /\ panicked = FALSE
    /\ GameDataNew
    /\ ClientNew
    /\ last = NoLast
    /\ GameStateNew
    /\ recorder = DemoRecorderNew
    /\ writer_thread = WriterThreadNew
    /\ \E ticks \in (SUBSET (0..MaxRecordTick)) \ {{}} :
          \E c \in [ticks -> UNION {[1..n -> 0..MaxByte] :
                                       n \in 0..MaxPayloadLen}] :
             chunk_io = [ChunkIoNew EXCEPT !.chunk = c]

\* The writer thread encodes the chunk.
WriteChunkStep ==
    /\ chunk_io.bytes = NoChunk
    /\ chunk_io' = [chunk_io EXCEPT !.bytes = WriteChunk(chunk_io.chunk)]
    /\ UNCHANGED <<recorder, writer_thread, netVars, stateVars>>

\* A viewer decodes it.
ReadChunksStep ==
    /\ chunk_io.bytes # NoChunk
    /\ chunk_io.read = NoChunk
    /\ chunk_io' = [chunk_io EXCEPT !.read = ReadChunks(chunk_io.bytes)]
    /\ UNCHANGED <<recorder, writer_thread, netVars, stateVars>>

NextChunk == WriteChunkStep \/ ReadChunksStep

SpecChunk == InitChunk /\ [][NextChunk]_vars

\* ============================================================ demo viewer
\* The tail index of the demo with the records of each chunk: snapshots
\* for every tick, events for every second tick in chunks that span two
\* chunks of snapshots.
Index(kind) ==
    IF kind = "Snapshots"
    THEN [k \in {ViewStart + i * ViewChunkLen : i \in 0..(ViewChunks - 1)} |->
             k..(k + ViewChunkLen - 1)]
    ELSE [k \in {ViewEventsStart + 2 * i * ViewChunkLen :
                    i \in 0..((ViewChunks - 1) \div 2)} |->
             {t \in k..(k + 2 * ViewChunkLen - 1) : (t - k) % 2 = 0}]

\* DemoHeader::len in ticks: from the first to the last recorded tick.
HeaderTicks == ViewStart + ViewChunks * ViewChunkLen - 1 - ViewEventsStart

\* lib.rs:805-818 (try_load_chunks): the records of the first or the last
\* indexed chunk whose key is one of keys join the resident ones.
TryLoadChunks(kind, keys, rev, cur_data) ==
    IF keys = {} THEN cur_data
    ELSE cur_data \cup Index(kind)[IF rev THEN SetMax(keys) ELSE SetMin(keys)]

\* lib.rs:820-844 (check_chunks)
CheckChunks(kind, cur_data, monotonic_tick) ==
    LET keys == DOMAIN Index(kind)
        first_tick == IF cur_data = {} THEN None ELSE SetMin(cur_data)
        loaded == IF first_tick = None \/ first_tick > monotonic_tick
                  THEN TryLoadChunks(kind, {k \in keys : k <= monotonic_tick},
                                     TRUE, cur_data)
                  ELSE cur_data
        last_tick == IF loaded = {} THEN 0 ELSE SetMax(loaded)
        both == IF last_tick < monotonic_tick + 1
                THEN TryLoadChunks(kind, {k \in keys : k >= last_tick + 1},
                                   FALSE, loaded)
                ELSE loaded
        before == {t \in both : t <= monotonic_tick}
    IN  IF before = {} THEN both
        ELSE {t \in both : t > monotonic_tick} \cup {SetMax(before)}

\* lib.rs:759-782 (time_to_tick): the time in ticks from the first key of
\* the two indices.
TimeToTick(time) ==
    time + SetMin(DOMAIN Index("Snapshots") \cup DOMAIN Index("Events"))

\* lib.rs:977-1003: the start of render_game: a viewer that is neither
\* paused nor finished advances, then its chunks are checked.
RenderGame(viewer, advance) ==
    LET cur_time == IF ~viewer.is_paused /\ viewer.cur_time < HeaderTicks
                    THEN viewer.cur_time + advance ELSE viewer.cur_time
        monotonic_tick == TimeToTick(cur_time)
    IN  [viewer EXCEPT
            !.cur_time = cur_time,
            !.cur_snapshots = CheckChunks("Snapshots", @, monotonic_tick),
            !.cur_events = CheckChunks("Events", @, monotonic_tick)]

\* lib.rs:678-682 (set_time_and_clear_chunks)
SetTimeAndClearChunks(viewer, time) ==
    [viewer EXCEPT !.cur_time = time, !.cur_snapshots = {},
                   !.cur_events = {}]

\* An export that checks the chunks of the main viewer.
RECURSIVE ExportFrom_OnMain(_, _, _)
ExportFrom_OnMain(v, monotonic_tick, last_monotonic_tick) ==
    IF monotonic_tick > last_monotonic_tick THEN v
    ELSE LET snaps == CheckChunks("Snapshots", v.inner.cur_snapshots,
                                  monotonic_tick)
             evs   == CheckChunks("Events", v.inner.cur_events,
                                  monotonic_tick)
         IN  ExportFrom_OnMain(
               [v EXCEPT !.inner.cur_snapshots = snaps,
                         !.inner.cur_events = evs,
                         !.exported = IF monotonic_tick \in snaps
                                      THEN @ \cup {monotonic_tick} ELSE @],
               monotonic_tick + 1, last_monotonic_tick)

\* lib.rs:1259-1289: the loop of an export over the ticks from left to
\* right; the new recorder is given the snapshots found at their tick.
RECURSIVE ExportFrom(_, _, _)
ExportFrom(v, monotonic_tick, last_monotonic_tick) ==
    IF monotonic_tick > last_monotonic_tick THEN v
    ELSE LET snaps == CheckChunks("Snapshots", v.preview.cur_snapshots,
                                  monotonic_tick)
             evs   == CheckChunks("Events", v.preview.cur_events,
                                  monotonic_tick)
         IN  ExportFrom(
               [v EXCEPT !.preview.cur_snapshots = snaps,
                         !.preview.cur_events = evs,
                         !.exported = IF monotonic_tick \in snaps
                                      THEN @ \cup {monotonic_tick} ELSE @],
               monotonic_tick + 1, last_monotonic_tick)

\* lib.rs:1183-1306: one event of the user interface is handled; the
\* preview asked for by PreviewAt is rendered at the end of the frame
\* (1308-1327).
OnEvent(v, event) ==
    CASE event.kind = "ResumeToggle" ->
           [v EXCEPT !.inner.is_paused = ~@]
      [] event.kind = "Stop" ->
           [v EXCEPT !.inner = [SetTimeAndClearChunks(@, 0)
                                  EXCEPT !.is_paused = TRUE]]
      [] event.kind = "BackwardFast" ->
           [v EXCEPT !.inner = SetTimeAndClearChunks(@, 0)]
      [] event.kind = "ForwardFast" ->
           [v EXCEPT !.inner = SetTimeAndClearChunks(@, HeaderTicks)]
      [] event.kind = "BackwardStep" ->
           [v EXCEPT !.inner.cur_time = IF @ > 0 THEN @ - 1 ELSE 0]
      [] event.kind = "ForwardStep" ->
           [v EXCEPT !.inner.cur_time = @ + 1]
      [] event.kind = "SpeedSlower" ->
           [v EXCEPT !.inner.speed = IF @ - 1 < -5 THEN -5 ELSE @ - 1]
      [] event.kind = "SpeedFaster" ->
           [v EXCEPT !.inner.speed = IF @ + 1 > 12 THEN 12 ELSE @ + 1]
      [] event.kind = "SpeedReset" ->
           [v EXCEPT !.inner.speed = 0]
      [] event.kind = "Export" ->
           ExportFrom([v EXCEPT !.preview =
                                    SetTimeAndClearChunks(@, event.time),
                                !.exported = {}],
                      TimeToTick(event.time), TimeToTick(event.right))
      [] event.kind = "SkipTo" ->
           [v EXCEPT !.inner = SetTimeAndClearChunks(@, event.time)]
      [] event.kind = "PreviewAt" ->
           [v EXCEPT !.preview =
                         RenderGame(SetTimeAndClearChunks(@, event.time), 0)]
      [] event.kind = "Close" ->
           [v EXCEPT !.inner.is_closed = TRUE]

\* DemoViewer::continue_loading (lib.rs:1520-1643): the viewer is swapped
\* for None and put back as the variant the call arrives at. task is the
\* state of the task that reads the demo, whose error leaves the call
\* through `?`; client_map and preview_client_map tell whether the map
\* loaders are done. The call returns the viewer of the Rendering variant.
ContinueLoading_PutBack(task, client_map, preview_client_map) ==
    /\ chunk_io' =
          CASE chunk_io.demo_viewer = "Loading" /\ task = "pending" ->
                 [chunk_io EXCEPT !.loaded = "Ok(None)"]
            [] chunk_io.demo_viewer = "Loading" /\ task = "failed" ->
                 [chunk_io EXCEPT !.demo_viewer = "Loading",
                                  !.loaded = "Err"]
            [] chunk_io.demo_viewer = "Loading" /\ task = "finished" ->
                 [chunk_io EXCEPT !.demo_viewer = "LoadingComponents",
                                  !.loaded = "Ok(None)"]
            [] chunk_io.demo_viewer = "LoadingComponents" ->
                 IF client_map /\ preview_client_map
                 THEN [chunk_io EXCEPT !.demo_viewer = "Rendering",
                                       !.loaded = "Ok(Some)",
                                       !.viewer = ViewerNew]
                 ELSE [chunk_io EXCEPT !.loaded = "Ok(None)"]
            [] chunk_io.demo_viewer = "Rendering" ->
                 [chunk_io EXCEPT !.loaded = "Ok(Some)"]
            [] chunk_io.demo_viewer = "None" ->
                 [chunk_io EXCEPT !.loaded = "Ok(None)"]
    /\ UNCHANGED <<recorder, writer_thread, netVars, stateVars>>

ContinueLoading(task, client_map, preview_client_map) ==
    /\ chunk_io' =
          CASE chunk_io.demo_viewer = "Loading" /\ task = "pending" ->
                 [chunk_io EXCEPT !.loaded = "Ok(None)"]
            [] chunk_io.demo_viewer = "Loading" /\ task = "failed" ->
                 [chunk_io EXCEPT !.demo_viewer = "None",
                                  !.loaded = "Err"]
            [] chunk_io.demo_viewer = "Loading" /\ task = "finished" ->
                 [chunk_io EXCEPT !.demo_viewer = "LoadingComponents",
                                  !.loaded = "Ok(None)"]
            [] chunk_io.demo_viewer = "LoadingComponents" ->
                 IF client_map /\ preview_client_map
                 THEN [chunk_io EXCEPT !.demo_viewer = "Rendering",
                                       !.loaded = "Ok(Some)",
                                       !.viewer = ViewerNew]
                 ELSE [chunk_io EXCEPT !.loaded = "Ok(None)"]
            [] chunk_io.demo_viewer = "Rendering" ->
                 [chunk_io EXCEPT !.loaded = "Ok(Some)"]
            [] chunk_io.demo_viewer = "None" ->
                 [chunk_io EXCEPT !.loaded = "Ok(None)"]
    /\ UNCHANGED <<recorder, writer_thread, netVars, stateVars>>

\* lib.rs:786-803 (intra_tick_time) in ticks: the ticks since the previous
\* snapshot, to be divided by tick_diff. The subtractions are of u64: one
\* that goes below zero panics in a build with overflow checks and wraps
\* in one without, where ticks is how far below zero it went.
IntraTickTime(monotonic_tick, prev_monotonic_tick, next_monotonic_tick, overflow_checks) ==
    LET tick_diff == next_monotonic_tick - prev_monotonic_tick
    IN  IF tick_diff < 0
        THEN [outcome |-> IF overflow_checks THEN "panic" ELSE "wrapped",
              ticks |-> 0, tick_diff |-> -tick_diff]
        ELSE IF tick_diff = 0
        THEN [outcome |-> "ok", ticks |-> 0, tick_diff |-> 0]
        ELSE IF monotonic_tick < prev_monotonic_tick
        THEN [outcome |-> IF overflow_checks THEN "panic" ELSE "wrapped",
              ticks |-> prev_monotonic_tick - monotonic_tick,
              tick_diff |-> tick_diff]
        ELSE [outcome |-> "ok",
              ticks |-> monotonic_tick - prev_monotonic_tick,
              tick_diff |-> tick_diff]

\* DemoViewerImpl::render (lib.rs:1149-1160): a frame renders the game of
\* the main viewer, which try_get_mut (1512-1518) hands out in the
\* Rendering variant only. After the chunks are checked render_game
\* (1012-1041) takes the first resident snapshot as the previous one and
\* the second, or the first again, as the next one, and computes the
\* intra tick time; without a resident snapshot it returns an error.
Render ==
    /\ chunk_io.demo_viewer = "Rendering"
    /\ ~chunk_io.viewer.inner.is_closed
    /\ chunk_io.viewer.intra_tick_time.outcome # "panic"
    /\ \E advance \in 0..ViewAdvance, overflow_checks \in BOOLEAN :
          LET inner == RenderGame(chunk_io.viewer.inner, advance)
              prev_tick == SetMin(inner.cur_snapshots)
              later == inner.cur_snapshots \ {prev_tick}
              next_tick == IF later = {} THEN prev_tick ELSE SetMin(later)
          IN  chunk_io' = [chunk_io EXCEPT
                  !.viewer.inner = inner,
                  !.viewer.intra_tick_time =
                      IF inner.cur_snapshots = {} THEN @
                      ELSE IntraTickTime(TimeToTick(inner.cur_time),
                                         prev_tick, next_tick,
                                         overflow_checks)]
    /\ UNCHANGED <<recorder, writer_thread, netVars, stateVars>>

\* The frame then handles the events the user interface left, one by one;
\* time and right are times of the demo.
HandleEvent(kinds) ==
    /\ chunk_io.demo_viewer = "Rendering"
    /\ ~chunk_io.viewer.inner.is_closed
    /\ chunk_io.viewer.intra_tick_time.outcome # "panic"
    /\ \E event \in
            [kind : {"ResumeToggle", "Stop", "BackwardFast", "ForwardFast",
                     "BackwardStep", "ForwardStep", "SpeedSlower",
                     "SpeedFaster", "SpeedReset", "Close"},
             time : {0}, right : {0}]
              \cup [kind : {"SkipTo"}, time : 0..HeaderTicks, right : {0}]
              \cup [kind : {"PreviewAt"}, time : 0..ViewPreview, right : {0}]
              \cup [kind : {"Export"}, time : 0..ViewPreview,
                    right : 0..ViewPreview] :
          /\ event.kind \in kinds
          /\ event.kind = "ForwardStep" =>
                chunk_io.viewer.inner.cur_time < HeaderTicks + ViewOver
          /\ event.kind \in {"SpeedSlower", "SpeedFaster"} =>
                chunk_io.viewer.inner.speed = 0
          /\ chunk_io' = [chunk_io EXCEPT !.viewer = OnEvent(@, event)]
    /\ UNCHANGED <<recorder, writer_thread, netVars, stateVars>>

ContinueLoadingStep ==
    \E task \in {"pending", "failed", "finished"},
       client_map \in BOOLEAN, preview_client_map \in BOOLEAN :
       ContinueLoading(task, client_map, preview_client_map)

\* ------------------------------------------------------------ SpecViewer
\* Playback: frames and the events that act on the main viewer.
NextViewer ==
    \/ ContinueLoadingStep
    \/ Render
    \/ HandleEvent({"ResumeToggle", "Stop", "BackwardFast", "ForwardFast",
                    "BackwardStep", "ForwardStep", "SpeedSlower",
                    "SpeedFaster", "SpeedReset", "SkipTo", "Close"})

SpecViewer == InitState /\ [][NextViewer]_vars

\* ----------------------------------------------------------- SpecPreview
\* Previews and exports during a playback that is paused, resumed, sped
\* up and sought.
NextPreview ==
    \/ ContinueLoadingStep
    \/ Render
    \/ HandleEvent({"ResumeToggle", "SpeedFaster", "SkipTo", "PreviewAt",
                    "Export"})

SpecPreview == InitState /\ [][NextPreview]_vars

\* ================================================== game event generator
\* bincode's decode_from_slice of a message: a length and as many bytes;
\* bytes that follow are left unread.
DecodeFromSlice(bytes) ==
    IF bytes # <<>> /\ bytes[1] <= Len(bytes) - 1
    THEN Ok(SubSeq(bytes, 2, 1 + bytes[1])) ELSE Err

\* An entry of the queue: the connection, the timestamp and the message or
\* the network event.
QueueEntry(con_id, timestamp, kind, what) ==
    [con_id |-> con_id, timestamp |-> timestamp, kind |-> kind,
     what |-> what]

\* game_event_generator.rs:38-60 (generate_from_binary)
GenerateFromBinary(timestamp, con_id, bytes) ==
    /\ Len(game_event_generator.arrived) < MaxArrivals
    /\ LET res == DecodeFromSlice(bytes)
           entry == QueueEntry(con_id, timestamp, "NetworkMsg", res.bytes)
       IN  game_event_generator' =
              [game_event_generator EXCEPT
                 !.events = IF res.ok THEN Append(@, entry) ELSE @,
                 !.has_events = IF res.ok THEN TRUE ELSE @,
                 !.arrived = Append(@, [entry |-> entry, decoded |-> res.ok,
                                        len |-> Len(game_event_generator
                                                      .events)])]
    /\ UNCHANGED <<netVars, demoVars, profile>>
    /\ UNCHANGED <<stages, pred_stages, id_generator, event_id_generator,
                   simulation_events, ev_serial, tick_calls, returned,
                   delivered, cleared, no_char_players>>

\* A network event that is dropped whenever the queue is full.
GenerateFromNetworkEvent_AnyKind(timestamp, con_id, network_event) ==
    /\ Len(game_event_generator.arrived) < MaxArrivals
    /\ LET entry == QueueEntry(con_id, timestamp, "NetworkEvent",
                               network_event)
       IN  game_event_generator' =
              [game_event_generator EXCEPT
                 !.events = IF Len(@) < StatsQueueLimit
                            THEN Append(@, entry) ELSE @,
                 !.has_events = TRUE,
                 !.arrived = Append(@, [entry |-> entry, decoded |-> TRUE,
                                        len |-> Len(game_event_generator
                                                      .events)])]
    /\ UNCHANGED <<netVars, demoVars, profile>>
    /\ UNCHANGED <<stages, pred_stages, id_generator, event_id_generator,
                   simulation_events, ev_serial, tick_calls, returned,
                   delivered, cleared, no_char_players>>

\* game_event_generator.rs:62-82 (generate_from_network_event)
GenerateFromNetworkEvent(timestamp, con_id, network_event) ==
    /\ Len(game_event_generator.arrived) < MaxArrivals
    /\ LET entry == QueueEntry(con_id, timestamp, "NetworkEvent",
                               network_event)
       IN  game_event_generator' =
              [game_event_generator EXCEPT
                 !.events = IF \/ network_event # "NetworkStats"
                               \/ Len(@) < StatsQueueLimit
                            THEN Append(@, entry) ELSE @,
                 !.has_events = TRUE,
                 !.arrived = Append(@, [entry |-> entry, decoded |-> TRUE,
                                        len |-> Len(game_event_generator
                                                      .events)])]
    /\ UNCHANGED <<netVars, demoVars, profile>>
    /\ UNCHANGED <<stages, pred_stages, id_generator, event_id_generator,
                   simulation_events, ev_serial, tick_calls, returned,
                   delivered, cleared, no_char_players>>

\* --------------------------------------------------------- SpecGenerator
\* The bytes that arrive: none, an empty message, a length without its
\* byte, a message of one byte and one followed by another byte.
ArrivingBytes == {<<>>, <<0>>, <<1>>, <<1, 1>>, <<1, 0, 1>>}

\* The queue holds the network statistics the game has not taken yet:
\* none, or as many as the limit or one less.
InitGenerator ==
    /\ game = "None"
    /\ panicked = FALSE
    /\ GameDataNew
    /\ last = NoLast
    /\ GameStateNew
    /\ DemoNew
    /\ profile = ProfileNew
    /\ \E n \in {0, StatsQueueLimit - 1, StatsQueueLimit} :
          game_event_generator =
             [GameEventGeneratorNew EXCEPT
                !.events = [i \in 1..n |->
                              QueueEntry(1, 0, "NetworkEvent",
                                         "NetworkStats")],
                !.has_events = n > 0]

\* The messages and events of the connection to the server arrive one
\* after the other, the n-th with timestamp n.
NextGenerator ==
    LET timestamp == Len(game_event_generator.arrived) + 1
    IN  \/ \E bytes \in ArrivingBytes :
             GenerateFromBinary(timestamp, 1, bytes)
        \/ \E network_event \in {"Connected", "NetworkStats"} :
             GenerateFromNetworkEvent(timestamp, 1, network_event)

SpecGenerator == InitGenerator /\ [][NextGenerator]_vars

\* ------------------------------------------------------------ properties
StrictlyIncreasing(s) == \A i, j \in 1..Len(s) : i < j => s[i] < s[j]

\* C1: a snapshot is given to build_from_snapshot only if its resolved id is
\* greater than the last applied id: the ids applied to the authoritative copy
\* are strictly increasing, handled_snap_id is the last of them, and a
\* message that was applied carried an id above every id applied before it.
C1_AppliedIdsIncrease ==
    /\ StrictlyIncreasing(built)
    /\ handled_snap_id = (IF built = <<>> THEN None ELSE built[Len(built)])
    /\ snap_acks = built
    /\ last.outcome = "applied" => built # <<>>
    /\ last.outcome = "stale" => handled_snap_id # None

\* C1 witness: after two snapshots were applied, a duplicate or older one
\* was discarded.
C1_Witness == last.outcome = "stale" /\ Len(built) >= 2

\* C2: a snapshot whose diff base is missing is dropped and leaves the
\* authoritative state, handled_snap_id, snap_storage, snap_acks and the
\* predicted tick as they were before the message, without a panic.
C2_DroppedLeavesState ==
    [][last'.missing_base =>
          /\ ~panicked'
          /\ last'.outcome = "dropped"
          /\ auth' = auth
          /\ handled_snap_id' = handled_snap_id
          /\ snap_storage' = snap_storage
          /\ snap_acks' = snap_acks
          /\ predicted_game_monotonic_tick' = predicted_game_monotonic_tick
      ]_vars

\* C3: handling a server message never panics, whatever the peer sent.
C3_NeverPanics == ~panicked

\* C4: when the applied snapshot's tick s is below the previous predicted tick
\* p, one step is replayed for every tick of [max(p - 3*tps, s), p), in
\* increasing order: never more than 3*tps steps for one snapshot.
C4_ReplayRange ==
    /\ Len(last.steps) <= 3 * TicksPerSecond
    /\ (last.outcome = "applied" /\ last.prev_tick > last.snap_tick) =>
         LET lo == Max(last.prev_tick - 3 * TicksPerSecond, last.snap_tick)
         IN  /\ Len(last.steps) = last.prev_tick - lo
             /\ \A i \in 1..Len(last.steps) : last.steps[i].tick = lo + i - 1
             /\ auth.ticks = Len(last.steps)

\* C4 witness: the snapshot is more than 3 seconds of ticks behind the
\* predicted tick, so the clamp decides where the replay starts.
C4_Witness ==
    /\ last.outcome = "applied"
    /\ last.prev_tick - last.snap_tick > 3 * TicksPerSecond
    /\ Len(last.steps) = 3 * TicksPerSecond

\* C5: a snapshot ahead of the predicted tick moves the predicted tick to the
\* snapshot's tick and replays nothing; an equal tick replays nothing; the
\* predicted tick after an applied snapshot is max(p, s) and never below what
\* it was before the message.
C5_PredictedTickIsMax ==
    last.outcome = "applied" =>
        /\ predicted_game_monotonic_tick = Max(last.prev_tick, last.snap_tick)
        /\ predicted_game_monotonic_tick >= last.pre_tick
        /\ last.snap_tick >= last.prev_tick =>
             (last.steps = <<>> /\ auth.ticks = 0)
        /\ last.snap_tick > last.prev_tick =>
             predicted_game_monotonic_tick = last.snap_tick

\* C5 witness: an active client applied a snapshot that was ahead of its
\* predicted tick, and the tick was moved forward.
C5_Witness ==
    /\ last.outcome = "applied"
    /\ last.snap_tick > last.prev_tick
    /\ last.pre_tick = last.prev_tick
    /\ Len(built) >= 2

\* What a prediction step started from the authoritative state must have
\* made of a player's character under the input in effect.
PredictedFrom(player_id, inp) ==
    LET s == PlayerStage(stages, player_id)
    IN /\ s \in DOMAIN pred_stages'
       /\ player_id \in DOMAIN pred_stages'[s].characters
       /\ pred_stages'[s].tick = stages[s].tick + 1
       /\ pred_stages'[s].characters[player_id].input = inp
       /\ pred_stages'[s].characters[player_id].pos =
             stages[s].characters[player_id].pos + inp

\* C6: pred_tick re-syncs the prediction copy from the authoritative copy,
\* then applies the given inputs, then advances the prediction copy by one
\* tick: after the call every player an input was given for has that input in
\* the prediction copy and was stepped with it from its authoritative state,
\* and every other player was stepped with its authoritative input.
C6_SyncThenInputThenTick ==
    [][\A inps \in PredInputs :
          PredTick(inps) =>
             /\ DOMAIN pred_stages' = DOMAIN stages
             /\ \A p \in Players(stages) :
                   PredictedFrom(p,
                      IF p \in DOMAIN inps THEN inps[p]
                      ELSE stages[PlayerStage(stages, p)].characters[p].input)
      ]_vars

\* C6 witness: a player whose authoritative input is 0 was predicted with the
\* input 1 passed to pred_tick, which moved it in the prediction copy only.
C6_Witness ==
    \E s \in DOMAIN stages \cap DOMAIN pred_stages :
      \E p \in DOMAIN stages[s].characters \cap DOMAIN pred_stages[s].characters :
         /\ stages[s].characters[p].input = 0
         /\ pred_stages[s].characters[p].input = 1
         /\ pred_stages[s].tick = stages[s].tick + 1
         /\ pred_stages[s].characters[p].pos = stages[s].characters[p].pos + 1
         /\ stages[s].tick >= 1

\* C7: pred_tick leaves the authoritative copy alone: the authoritative
\* stages with their tick counters, the authoritative players and the queue
\* of pending simulation events are the same before and after the call.
C7_PredTickKeepsAuthoritative ==
    [][PredTickStep =>
          /\ stages' = stages
          /\ Players(stages') = Players(stages)
          /\ \A s \in DOMAIN stages : stages'[s].tick = stages[s].tick
          /\ simulation_events' = simulation_events
          /\ ev_serial' = ev_serial /\ tick_calls' = tick_calls
      ]_vars

\* C7 witness: events are pending and the prediction copy, given an input the
\* authoritative copy does not have, has produced an entity of its own.
C7_Witness ==
    /\ simulation_events # EmptyMap
    /\ \E s \in DOMAIN stages \cap DOMAIN pred_stages :
         /\ pred_stages[s].projectile.alive
         /\ ~stages[s].projectile.alive
         /\ pred_stages[s].tick = stages[s].tick + 1
         /\ \E p \in DOMAIN stages[s].characters :
               /\ p \in DOMAIN pred_stages[s].characters
               /\ stages[s].characters[p].input = 0
               /\ pred_stages[s].characters[p].input = 1

\* C8: neither build_from_snapshot_for_pred nor pred_tick advances or resets
\* the entity id generator: the id player_join hands out next is the same
\* before and after the call.
C8_PredictionKeepsIdGenerator ==
    [][PredTickStep \/ BuildFromSnapshotForPredStep =>
          id_generator' = id_generator]_vars

\* C8 witness: a prediction step spawned an entity, which has no id of the
\* generator, while the generator still has ids to hand out.
C8_Witness ==
    /\ id_generator <= MaxEntityId
    /\ \E s \in DOMAIN pred_stages :
         /\ pred_stages[s].projectile.alive
         /\ pred_stages[s].projectile.id = None
         /\ ~pred_stages[s].id_gen

\* C9: every call of tick() advances every authoritative stage by exactly
\* one step and no prediction stage; stage 0, which exists from the start,
\* has been stepped exactly as often as tick() was called.
C9_TickAdvancesEveryStageOnce ==
    [][/\ stage_0_id \in DOMAIN stages'
       /\ stages'[stage_0_id].tick = tick_calls'
       /\ Tick =>
            /\ DOMAIN stages' = DOMAIN stages
            /\ \A s \in DOMAIN stages : stages'[s].tick = stages[s].tick + 1
            /\ pred_stages' = pred_stages
            /\ tick_calls' = tick_calls + 1
      ]_vars

\* C9 witness: tick() was called MaxStageTick times with two authoritative
\* stages, both stepped that often, and a prediction copy that stayed behind.
C9_Witness ==
    /\ tick_calls = MaxStageTick
    /\ Cardinality(DOMAIN stages) >= 2
    /\ \A s \in DOMAIN stages : stages[s].tick = MaxStageTick
    /\ pred_stages # EmptyMap
    /\ \A s \in DOMAIN pred_stages : pred_stages[s].tick < MaxStageTick

\* The serial numbers of a sequence of events, in its order.
SerialSeq(evs) == [i \in 1..Len(evs) |-> evs[i].serial]

\* The events of a sequence that are of the kinds clients are sent.
SentToClients(evs) ==
    SelectSeq(evs, LAMBDA e : e.kind \in {"PlayerJoined", "CharacterSound"})

\* C10 as stated: every event the authoritative simulation produced is
\* returned by events_for to a given recipient exactly once and in the order
\* produced: a call never returns an event the same recipient was returned
\* before, no queued event is cleared before every recipient was returned it,
\* and a cleared event is not returned again.
C10_ExactlyOncePerRecipient ==
    [][/\ \A client \in Recipients :
             EventsFor(client) =>
                 /\ WorldsSerials(returned'.worlds) \cap delivered[client] = {}
                 /\ WorldsSerials(returned'.worlds) \cap cleared = {}
       /\ ClearEvents =>
             \A client \in Recipients :
                 WorldsSerials(simulation_events) \subseteq delivered[client]
      ]_vars

\* C10, amended: events_for returns, for every world and in the order
\* produced, exactly the queued events of the kinds sent to clients, with
\* consecutive event ids, and leaves the queue as it is; clear_events empties
\* the queue, and no event it discarded is queued or returned again.
C10_EventsForReturnsQueued ==
    [][/\ EventsForStep =>
             /\ simulation_events' = simulation_events
             /\ \A w \in DOMAIN simulation_events :
                   LET sent == SentToClients(simulation_events[w])
                   IN IF sent = <<>> THEN w \notin DOMAIN returned'.worlds
                      ELSE /\ w \in DOMAIN returned'.worlds
                           /\ SerialSeq(returned'.worlds[w]) = SerialSeq(sent)
             /\ DOMAIN returned'.worlds \subseteq DOMAIN simulation_events
             /\ WorldsSerials(returned'.worlds) \cap cleared = {}
             /\ event_id_generator' = event_id_generator
                   + Cardinality(WorldsSerials(returned'.worlds))
       /\ ClearEvents => simulation_events' = EmptyMap
       /\ WorldsSerials(simulation_events') \cap cleared' = {}
       /\ \A w \in DOMAIN simulation_events' :
             StrictlyIncreasing(SerialSeq(simulation_events'[w]))
      ]_vars

\* C10 witness: a call returned two events of one world in the order
\* produced and skipped one that is not sent to clients; clear_events then
\* discarded all of them.
C10_Witness ==
    /\ simulation_events = EmptyMap
    /\ WorldsSerials(returned.worlds) \subseteq cleared
    /\ cleared \ WorldsSerials(returned.worlds) # {}
    /\ \E w \in DOMAIN returned.worlds :
         /\ Len(returned.worlds[w]) >= 2
         /\ StrictlyIncreasing(SerialSeq(returned.worlds[w]))

\* The positions of an acknowledgement list whose id was still stored when
\* its turn came: stored before the message and not preceded by an
\* acknowledgement of the same or a greater id.
FoundStored(acks, stored) ==
    {i \in 1..Len(acks) :
        acks[i] \in stored /\ \A j \in 1..(i - 1) : acks[j] < acks[i]}

\* C11: after the input acknowledgements of a snapshot message are
\* processed, no stored input has an id at or below an acknowledged id, and
\* server_input is the input with the greatest acknowledged id that was still
\* stored (for ids the client has sent: the greatest acknowledged stored id,
\* in whatever order they are listed); server_input's id never decreases, and
\* every stored input is newer than server_input.
C11_AcksProcessed ==
    /\ \A id \in server_input_storage : id > server_input
    /\ server_input < next_input_id
    /\ last.outcome \in {"dropped", "stale", "applied"} =>
         LET found == FoundStored(last.acks, last.stored)
             acked == SeqToSet(last.acks)
         IN /\ \A a \in acked : \A id \in server_input_storage : id > a
            /\ server_input =
                 (IF found = {} THEN last.was_server_input
                  ELSE SetMax({last.acks[i] : i \in found}))
            /\ server_input >= last.was_server_input
            /\ (acked \cap last.stored # {}
                  /\ \A a \in acked : a < next_input_id)
                 => server_input = SetMax(acked \cap last.stored)

\* C11 witness: a message acknowledged two stored inputs, the newer one
\* first, after an earlier message had already promoted an input.
C11_Witness ==
    /\ last.outcome \in {"dropped", "stale", "applied"}
    /\ Len(last.acks) = 2
    /\ last.acks[1] > last.acks[2]
    /\ {last.acks[1], last.acks[2]} \subseteq last.stored
    /\ last.was_server_input # None
    /\ server_input = last.acks[1]

\* The id a snapshot message resolves to: snap_id_diffed, plus diff_id when
\* the message is diff-encoded.
ResolvedIdOf(m) ==
    m.snap_id_diffed + (IF m.diff_id # None THEN m.diff_id ELSE 0)

\* C12: handling a snapshot message that is applied to the authoritative
\* copy appends exactly one acknowledgement to snap_acks, carrying the
\* message's resolved id (snap_id_diffed, plus diff_id when diff-encoded); a
\* message that is dropped or discarded as stale leaves snap_acks as it was.
C12_OneAckPerApplied ==
    [][/\ last'.outcome = "applied" =>
             /\ snap_acks' = Append(snap_acks, ResolvedIdOf(msg'))
             /\ built' = Append(built, ResolvedIdOf(msg'))
       /\ last'.outcome \in {"dropped", "stale"} =>
             /\ snap_acks' = snap_acks
             /\ built' = built
      ]_vars

\* C12 witness: a diff against a base other than snapshot 0 was applied and
\* acknowledged with the sum of the two ids, after a message was applied
\* that is no diff.
C12_Witness ==
    /\ last.outcome = "applied"
    /\ msg.diff_id # None /\ msg.diff_id > 0 /\ msg.snap_id_diffed > 0
    /\ snap_acks # <<>>
    /\ snap_acks[Len(snap_acks)] = msg.snap_id_diffed + msg.diff_id

\* C13: snap_storage never holds more than 50 entries; an entry is inserted
\* only by a message that was applied and had as_diff = true, under the
\* applied snapshot's id; entries leave the store only when it is full and
\* a new one is inserted, and every entry that leaves has a smaller id than
\* every entry that stays.
C13_StoreBounded ==
    [][LET old == DOMAIN snap_storage
           new == DOMAIN snap_storage'
       IN  /\ Cardinality(new) <= SnapStorageCap
           /\ new \ old # {} =>
                 /\ last'.outcome = "applied"
                 /\ msg'.as_diff
                 /\ new \ old = {handled_snap_id'}
           /\ old \ new # {} =>
                 /\ Cardinality(old) >= SnapStorageCap
                 /\ new \ old # {}
                 /\ \A e \in old \ new : \A k \in new : e < k
      ]_vars

\* C13 witness: the store holds 50 entries, the oldest one was evicted for
\* the snapshot that was just applied.
C13_Witness ==
    /\ Cardinality(DOMAIN snap_storage) = SnapStorageCap
    /\ 0 \notin DOMAIN snap_storage
    /\ last.outcome = "applied"
    /\ msg.as_diff
    /\ handled_snap_id \in DOMAIN snap_storage

\* C14: every step of a replay is simulated, one per tick of the replayed
\* range; the input applied for the step into tick t is the buffered input
\* of tick t if there is one, else the buffered input with the greatest
\* tick below t, and none if the buffer has no tick up to t.
C14_ReplayInput ==
    last.outcome = "applied" =>
        LET buffered == SeqToSet(input_per_tick)
            lo == IF last.prev_tick > last.snap_tick
                  THEN Max(last.prev_tick - 3 * TicksPerSecond, last.snap_tick)
                  ELSE last.prev_tick
        IN  /\ Len(last.steps) = IF last.prev_tick > last.snap_tick
                                 THEN last.prev_tick - lo ELSE 0
            /\ auth.ticks = Len(last.steps)
            /\ \A i \in 1..Len(last.steps) :
                  LET t == last.steps[i].tick + 1
                      upto == {b \in buffered : b <= t}
                  IN  /\ last.steps[i].tick = lo + i - 1
                      /\ last.steps[i].inp =
                            (IF t \in buffered THEN t
                             ELSE IF upto = {} THEN None ELSE SetMax(upto))

\* C14 witness: one replay with a step that has no input at all, a step with
\* the input of its own tick and a step that falls back to an earlier input.
C14_Witness ==
    /\ last.outcome = "applied"
    /\ \E i, j, k \in 1..Len(last.steps) :
          /\ last.steps[i].inp = None
          /\ last.steps[j].inp = last.steps[j].tick + 1
          /\ last.steps[k].inp # None
          /\ last.steps[k].inp < last.steps[k].tick + 1

\* C15: a message whose handling completes takes a client that waits for
\* its first snapshot to Active exactly if it is a Snapshot message (applied
\* or dropped), to Loading exactly if it is Load, and leaves it waiting
\* otherwise; a message handled while None, PrepareConnect or Loading leaves
\* the variant as it is.
C15_WaitingToActive ==
    [][(~panicked' /\ last'.outcome # "none") =>
          /\ game = "WaitingForFirstSnapshot" =>
                /\ game' = "Active" <=>
                      last'.outcome \in {"dropped", "stale", "applied"}
                /\ game' = "Loading" <=> last'.outcome = "ignored"
                /\ game' = "WaitingForFirstSnapshot" <=> last'.outcome = "other"
          /\ game \in {"None", "PrepareConnect", "Loading"} => game' = game
          /\ game' = "Active" => game \in {"WaitingForFirstSnapshot", "Active"}
      ]_vars

\* C15 witness: the first snapshot since the map was loaded was handled and
\* the client is Active.
C15_Witness ==
    /\ game = "Active"
    /\ last.outcome = "applied"
    /\ Len(built) = 1

\* The chunks of one kind among the chunks written.
WrittenOf(kind) == SelectSeq(writer_thread.file, LAMBDA c : c.kind = kind)

\* C16: a writer that has not failed has written, for each kind, only
\* chunks whose first tick is after the last tick of the chunk of that kind
\* written before: [10,20] followed by [15,25] fails.
C16_RejectsOverlap ==
    writer_thread.state # "failed" =>
        \A kind \in {"Snapshots", "Events"} :
            LET written == WrittenOf(kind)
            IN  \A i \in 1..(Len(written) - 1) :
                  written[i + 1].ticks[1] > LastOf(written[i].ticks)

\* The chunks of one kind among the chunks handed to the writer thread.
SentOf(kind) == SelectSeq(recorder.sent_chunks, LAMBDA c : c.kind = kind)

\* The ticks of a sequence of chunks, in the order they were handed over.
RECURSIVE TicksOf(_)
TicksOf(chunks) ==
    IF chunks = <<>> THEN <<>>
    ELSE Head(chunks).ticks \o TicksOf(Tail(chunks))

\* Every tick of the sequence is below the next one.
Ascending(ticks) == \A i \in 1..(Len(ticks) - 1) : ticks[i] < ticks[i + 1]

\* C17: while the recorder lives, add_snapshot / add_event hand over at
\* most one chunk, and only if the map held more than 1500 entries and its
\* newest tick was more than 3 * ticks_per_second after the tick of its
\* 1501st-oldest entry; the chunk is then the 1500 oldest entries, and the
\* 1501st-oldest and all newer entries are still in the map afterwards.
C17_FlushThreshold ==
    [][(~recorder'.dropped /\ recorder'.sent_chunks # recorder.sent_chunks) =>
          LET n     == Len(recorder.sent_chunks)
              c     == recorder'.sent_chunks[n + 1]
              data  == IF c.kind = "Snapshots" THEN recorder.snapshots
                       ELSE recorder.events
              after == IF c.kind = "Snapshots" THEN recorder'.snapshots
                       ELSE recorder'.events
          IN  /\ Len(recorder'.sent_chunks) = n + 1
              /\ Len(data) > DATA_PER_CHUNK_TO_WRITE
              /\ LastOf(data) - data[DATA_PER_CHUNK_TO_WRITE + 1]
                    > 3 * TicksPerSecond
              /\ c.ticks = SubSeq(data, 1, DATA_PER_CHUNK_TO_WRITE)
              /\ \A i \in (DATA_PER_CHUNK_TO_WRITE + 1)..Len(data) :
                    data[i] \in SeqToSet(after)
              /\ \A i \in 1..Len(after) :
                    after[i] > LastOf(c.ticks)
      ]_vars

\* C17 witness: the recorder lives, has handed over one chunk of 1500
\* snapshots and holds the rest.
C17_Witness ==
    /\ ~recorder.dropped
    /\ Len(recorder.sent_chunks) = 1
    /\ recorder.sent_chunks[1].kind = "Snapshots"
    /\ Len(recorder.sent_chunks[1].ticks) = DATA_PER_CHUNK_TO_WRITE
    /\ Len(recorder.snapshots) >= 2

\* The final header's length is that of last - first ticks.
LenIsTicks(len, ticks) ==
    /\ len.nanos < NanosPerSecond
    /\ len.secs * TicksPerSecond
         + len.nanos \div (NanosPerSecond \div TicksPerSecond) = ticks

\* What C18 says of a demo with between `least` and 1500 snapshots: no
\* snapshot chunk is handed over before the drop; once the writer has
\* finished, the file holds one snapshot chunk with every snapshot, and the
\* final header's len is (last tick - first tick) / ticks_per_second over
\* the ticks written.
UpTo1500Snapshots(least) ==
    LET sent_snaps == SentOf("Snapshots")
        total == Len(TicksOf(sent_snaps)) + Len(recorder.snapshots)
        small == total >= least /\ total <= DATA_PER_CHUNK_TO_WRITE
    IN  /\ (small /\ ~recorder.dropped) => sent_snaps = <<>>
        /\ (small /\ recorder.dropped) => Len(sent_snaps) = 1
        /\ (small /\ writer_thread.state = "finished") =>
              LET written == writer_thread.file
                  first_tick ==
                      SetMin({written[i].ticks[1] : i \in 1..Len(written)})
                  last_tick ==
                      SetMax({LastOf(written[i].ticks) : i \in 1..Len(written)})
              IN  /\ WrittenOf("Snapshots") = sent_snaps
                  /\ Len(sent_snaps) = 1
                  /\ Len(sent_snaps[1].ticks) = total
                  /\ writer_thread.header.final
                  /\ LenIsTicks(writer_thread.header.len,
                                last_tick - first_tick)

\* C18 as stated: for every demo with at most 1500 snapshots, one without
\* any snapshot included.
C18_OneChunkOnDrop == UpTo1500Snapshots(0)

\* C18, amended: for every demo with at least one and at most 1500
\* snapshots, no chunk of snapshots is handed over before the drop, the drop
\* hands over exactly one with all of them, the writer writes it, and the
\* final header's len is (last tick - first tick) / ticks_per_second.
C18_OneChunkOnDropIfAny == UpTo1500Snapshots(1)

\* C18 witness: exactly 1500 snapshots were recorded, the first at tick 1,
\* and the demo is complete.
C18_Witness ==
    /\ writer_thread.state = "finished"
    /\ writer_thread.header.final
    /\ Len(SentOf("Snapshots")) = 1
    /\ Len(SentOf("Snapshots")[1].ticks) = DATA_PER_CHUNK_TO_WRITE
    /\ SentOf("Snapshots")[1].ticks[1] = 1

\* C19: the drop hands over every snapshot and every event the recorder
\* still holds, in ascending tick order, in chunks of at least one and at
\* most 1500 entries, and leaves the recorder empty.
C19_DropFlushesAll ==
    [][(recorder'.dropped /\ ~recorder.dropped) =>
          LET n   == Len(recorder.sent_chunks)
              new == SubSeq(recorder'.sent_chunks, n + 1,
                            Len(recorder'.sent_chunks))
              of(kind) == SelectSeq(new, LAMBDA c : c.kind = kind)
          IN  /\ TicksOf(of("Snapshots")) = recorder.snapshots
              /\ TicksOf(of("Events")) = recorder.events
              /\ Ascending(TicksOf(of("Snapshots")))
              /\ Ascending(TicksOf(of("Events")))
              /\ \A i \in 1..Len(new) :
                    /\ Len(new[i].ticks) >= 1
                    /\ Len(new[i].ticks) <= DATA_PER_CHUNK_TO_WRITE
              /\ recorder'.snapshots = <<>>
              /\ recorder'.events = <<>>
      ]_vars

\* C19 witness: the drop found more than 1500 snapshots close to each other
\* and handed them over in two chunks, followed by a chunk of events.
C19_Witness ==
    /\ recorder.dropped
    /\ Len(recorder.sent_chunks) = 3
    /\ Len(recorder.sent_chunks[1].ticks) = DATA_PER_CHUNK_TO_WRITE
    /\ recorder.sent_chunks[2].kind = "Snapshots"
    /\ LastOf(recorder.sent_chunks[2].ticks) - recorder.sent_chunks[2].ticks[1]
         <= 3 * TicksPerSecond
    /\ recorder.sent_chunks[3].kind = "Events"
    /\ Len(recorder.sent_chunks[3].ticks) = 2

\* The bytes of the records of an encoded chunk, behind their count.
RecordBytes(bytes) == Tail(Decomp(Tail(bytes)).bytes)

\* C20: reading back the bytes write_chunk made of a chunk yields exactly
\* the chunk's (tick, payload) records; the first record is stored as the
\* compressed serialization of its payload, the second as a diff of its
\* serialization against the first record's serialization; and patching a
\* base with the diff of a target against it gives the target.
C20_RoundTrip ==
    /\ chunk_io.read # NoChunk =>
          /\ chunk_io.read.ok
          /\ chunk_io.read.res = chunk_io.chunk
    /\ chunk_io.bytes # NoChunk =>
          LET c      == chunk_io.chunk
              recs   == RecordBytes(chunk_io.bytes)
              t1     == SetMin(DOMAIN c)
              size1  == recs[2]
              first  == SubSeq(recs, 3, 2 + size1)
          IN  /\ recs[1] = t1
              /\ first = Comp(Ser(c[t1]))
              /\ Cardinality(DOMAIN c) >= 2 =>
                    LET t2     == SetMin(DOMAIN c \ {t1})
                        size2  == recs[4 + size1]
                        second == SubSeq(recs, 5 + size1, 4 + size1 + size2)
                    IN  /\ recs[3 + size1] = t2
                        /\ second = Diff(Ser(c[t1]), Ser(c[t2]))
                        /\ Patch(Ser(c[t1]), second) = Ok(Ser(c[t2]))

\* C20 witness: a chunk of three records with different payloads was read
\* back as it was written.
C20_Witness ==
    /\ chunk_io.read # NoChunk
    /\ chunk_io.read.ok
    /\ chunk_io.read.res = chunk_io.chunk
    /\ DOMAIN chunk_io.chunk = 0..2
    /\ chunk_io.chunk[0] # chunk_io.chunk[1]
    /\ chunk_io.chunk[1] # chunk_io.chunk[2]

\* The offset of the i-th chunk of the file from the start of the chunk
\* region: the lengths of the chunks written before it.
RECURSIVE OffsetOf(_, _)
OffsetOf(file, i) ==
    IF i <= 1 THEN 0 ELSE OffsetOf(file, i - 1) + ChunkLen(file[i - 1])

\* The index of a kind in the tail.
TailIndex(kind) ==
    IF kind = "Snapshots" THEN writer_thread.snapshots_index
    ELSE writer_thread.events_index

\* C21: in a finished demo the tail index of each kind has one entry per
\* chunk written of that kind, keyed by the chunk's first tick, whose value
\* is the offset of that chunk from the start of the chunk region.
C21_TailIndex ==
    writer_thread.state = "finished" =>
        \A kind \in {"Snapshots", "Events"} :
            LET file == writer_thread.file
                of_kind == {i \in 1..Len(file) : file[i].kind = kind}
            IN  /\ Cardinality(DOMAIN TailIndex(kind)) = Cardinality(of_kind)
                /\ \A i \in of_kind :
                      /\ file[i].ticks[1] \in DOMAIN TailIndex(kind)
                      /\ TailIndex(kind)[file[i].ticks[1]] = OffsetOf(file, i)

\* A finished demo with two snapshot chunks and an event chunk.
C21_Witness ==
    /\ writer_thread.state = "finished"
    /\ writer_thread.header.final
    /\ Len(WrittenOf("Snapshots")) = 2
    /\ Len(WrittenOf("Events")) = 1
    /\ writer_thread.file[1].kind = "Snapshots"

\* C22: the header says size_chunks = 0 from the start; it changes only
\* once, after every chunk handed over and the tail have been written, to
\* the size of the chunk region, which is not 0; and the file gets its
\* final name only after that.
C22_HeaderLast ==
    /\ writer_thread.header.size_chunks = 0
    /\ ~writer_thread.named
    /\ [][/\ writer_thread'.header # writer_thread.header =>
               /\ writer_thread.state = "tail"
               /\ writer_thread.header.size_chunks = 0
               /\ recorder.dropped /\ recorder.channel = <<>>
               /\ writer_thread.file = recorder.sent_chunks
               /\ writer_thread'.header.size_chunks =
                     OffsetOf(writer_thread.file, Len(writer_thread.file) + 1)
               /\ writer_thread'.header.size_chunks > 0
          /\ writer_thread'.named # writer_thread.named =>
               /\ writer_thread.state = "header"
               /\ writer_thread.header.size_chunks > 0
               /\ writer_thread'.header = writer_thread.header
               /\ writer_thread'.named]_vars

\* A demo of three chunks has its final name.
C22_Witness ==
    /\ writer_thread.named
    /\ writer_thread.state = "finished"
    /\ Len(writer_thread.file) = 3
    /\ writer_thread.header.size_chunks = writer_thread.size - HeaderBytes

\* C23: once the writer thread has failed, no call on the recorder has
\* panicked, and add_snapshot, add_event and the drop can still be taken
\* and complete.
C23_WriterFailureHarmless ==
    writer_thread.state = "failed" =>
        /\ ~recorder.panicked
        /\ ~recorder.dropped =>
              /\ ENABLED AddSnapshot
              /\ Settled => (ENABLED AddEvent /\ ENABLED Drop)

\* The writer thread failed before it received anything; two chunks were
\* handed over after that and the recorder was dropped.
C23_Witness ==
    /\ writer_thread.state = "failed"
    /\ writer_thread.file = <<>>
    /\ recorder.dropped
    /\ recorder.channel = <<>>
    /\ Len(recorder.sent_chunks) >= 2

\* The ticks of the entries of a kind that were handed over, chunk after
\* chunk, followed by those the recorder holds.
Owned(rec, kind) ==
    TicksOf(SelectSeq(rec.sent_chunks, LAMBDA c : c.kind = kind))
        \o (IF kind = "Snapshots" THEN rec.snapshots ELSE rec.events)

\* C24: nothing is owned at the start, and every step leaves the entries
\* handed over chunk by chunk, followed by the entries in the map, as they
\* are, or adds one entry after the last, or leaves them strictly ascending
\* with every earlier entry at its place or one place later. So the
\* entries are strictly ascending in every state (no entry is in the map
\* and in a chunk, or in two chunks), and none disappears.
C24_MovedNotShared ==
    [][\A kind \in {"Snapshots", "Events"} :
          LET old == Owned(recorder, kind)
              new == Owned(recorder', kind)
          IN  \/ new = old
              \/ /\ Len(new) = Len(old) + 1
                 /\ SubSeq(new, 1, Len(old)) = old
                 /\ old # <<>> => LastOf(old) < LastOf(new)
              \/ /\ Ascending(new)
                 /\ Len(new) >= Len(old)
                 /\ \A i \in 1..Len(old) :
                       \/ old[i] = new[i]
                       \/ i < Len(new) /\ old[i] = new[i + 1]]_vars

\* A chunk of snapshots was handed over while the recorder lives and holds
\* newer snapshots.
C24_Witness ==
    /\ ~recorder.dropped
    /\ Len(SentOf("Snapshots")) = 1
    /\ Len(recorder.snapshots) >= 2
    /\ recorder.events # <<>>

\* The snapshots of the chunk at or before a tick and of the chunk after
\* it.
TwoChunks(monotonic_tick) ==
    LET index == Index("Snapshots")
        at_or_before == {k \in DOMAIN index : k <= monotonic_tick}
        after == {k \in DOMAIN index : k > monotonic_tick}
    IN  (IF at_or_before = {} THEN {} ELSE index[SetMax(at_or_before)])
          \cup (IF after = {} THEN {} ELSE index[SetMin(after)])

\* C25: after every frame's check_chunks the main viewer holds no more
\* snapshots than two chunks have, and those it holds are of the chunk at
\* or before the tick of its time and of the chunk after that one.
C25_TwoChunksResident ==
    [][Render =>
         LET inner == chunk_io'.viewer.inner
         IN  /\ Cardinality(inner.cur_snapshots) <= 2 * ViewChunkLen
             /\ inner.cur_snapshots
                   \subseteq TwoChunks(TimeToTick(inner.cur_time))]_vars

\* C26: in every state the viewer reaches, handling a PreviewAt or an
\* Export event leaves the main viewer (its time, paused flag, speed and
\* resident snapshots and events) as it is, whatever times the event
\* names.
C26_PreviewLeavesMain ==
    \A event \in [kind : {"PreviewAt", "Export"}, time : 0..ViewPreview,
                   right : 0..ViewPreview] :
        OnEvent(chunk_io.viewer, event).inner = chunk_io.viewer.inner

\* The main viewer is paused past the first chunk at a changed speed with
\* snapshots resident, after an export that recorded a snapshot.
C26_Witness ==
    LET v == chunk_io.viewer
    IN  /\ v.exported # {}
        /\ v.preview.cur_snapshots # {}
        /\ v.inner.is_paused
        /\ v.inner.speed = 1
        /\ v.inner.cur_time > ViewChunkLen
        /\ v.inner.cur_snapshots # {}

\* The player info of a player, or None for an id that is no player's.
PlayerInfoOf(stgs, id) ==
    IF IsPlayer(stgs, id)
    THEN stgs[PlayerStage(stgs, id)].characters[id].player_info
    ELSE None

C28_LoadsForward ==
    [][LET old == chunk_io.demo_viewer
           new == chunk_io'.demo_viewer
       IN /\ old = "Rendering" => new = "Rendering"
          /\ \A task \in {"pending", "failed", "finished"},
                client_map \in BOOLEAN, preview_client_map \in BOOLEAN :
                ContinueLoading(task, client_map, preview_client_map) =>
                   IF old = "Loading" /\ task = "failed"
                   THEN new = "None" /\ chunk_io'.loaded = "Err"
                   ELSE /\ chunk_io'.loaded # "Err"
                        /\ <<old, new>> \in
                              {<<"Loading", "Loading">>,
                               <<"Loading", "LoadingComponents">>,
                               <<"LoadingComponents", "LoadingComponents">>,
                               <<"LoadingComponents", "Rendering">>,
                               <<"Rendering", "Rendering">>,
                               <<"None", "None">>}]_vars

\* The viewer went through Loading and LoadingComponents, rendered frames
\* of the demo, and continue_loading still returns it.
C28_Witness ==
    /\ chunk_io.demo_viewer = "Rendering"
    /\ chunk_io.loaded = "Ok(Some)"
    /\ chunk_io.viewer.inner.cur_time > 0
    /\ chunk_io.viewer.inner.cur_snapshots # {}

\* C29: a Snapshot message that is dropped because its base is missing or
\* discarded because it is not newer still has its input acknowledgements
\* processed: the stored inputs at or below an acknowledged id are
\* removed, the greatest acknowledged input that was still stored becomes
\* server_input, every acknowledged id is taken out of sent_input_ids and
\* the prediction timer gets one sample for each id taken out; nothing
\* else of the client changes.
C29_AcksBeforeDrop ==
    [][last'.outcome \in {"dropped", "stale"} =>
          LET acked == SeqToSet(last'.acks)
              found == FoundStored(last'.acks, server_input_storage)
          IN /\ server_input_storage' =
                   {i \in server_input_storage : \A a \in acked : i > a}
             /\ server_input' =
                   (IF found = {} THEN server_input
                    ELSE SetMax({last'.acks[i] : i \in found}))
             /\ sent_input_ids' = sent_input_ids \ acked
             /\ last'.pings = Cardinality(sent_input_ids \cap acked)
             /\ UNCHANGED <<handled_snap_id, snap_storage, snap_acks,
                            input_per_tick, auth, built>>]_vars

\* After a snapshot was applied and an input promoted, a message whose
\* base is missing acknowledged two sent inputs: both round trips were
\* sampled and the newer input is server_input.
C29_Witness ==
    /\ last.outcome = "dropped"
    /\ last.missing_base
    /\ handled_snap_id # None
    /\ Len(last.acks) = 2
    /\ last.acks[1] < last.acks[2]
    /\ last.pings = 2
    /\ server_input = last.acks[2]
    /\ last.was_server_input # None

\* C30: after a newer snapshot with tick s has been applied,
\* input_per_tick holds no entry for a tick before or at s.
C30_NoInputUpToSnapshot ==
    [][last'.outcome = "applied" =>
          \A i \in 1..Len(input_per_tick') :
             input_per_tick'[i] > last'.snap_tick]_vars

\* C31: after an applied snapshot has been handled, the snapshot's tick
\* plus the number of replayed simulation steps equals
\* predicted_game_monotonic_tick, whatever the gap between the snapshot's
\* tick and the previously predicted tick.
C31_SimulatedToPredicted ==
    last.outcome = "applied" =>
       last.snap_tick + auth.ticks = predicted_game_monotonic_tick

\* C31 as the code has it: the equality holds when the snapshot is at most
\* three seconds of ticks behind the previously predicted tick (or not
\* behind it at all); a snapshot further behind is followed by exactly
\* three seconds of steps, which end short of the predicted tick.
C31_SimulatedToPredictedWithin ==
    last.outcome = "applied" =>
       /\ auth.ticks = Len(last.steps)
       /\ IF last.prev_tick - last.snap_tick <= TicksPerSecond * ReplaySeconds
          THEN last.snap_tick + auth.ticks = predicted_game_monotonic_tick
          ELSE /\ auth.ticks = TicksPerSecond * ReplaySeconds
               /\ last.snap_tick + auth.ticks < predicted_game_monotonic_tick

\* A snapshot exactly three seconds of ticks behind the predicted tick
\* was applied and the replay reached the predicted tick.
C31_Witness ==
    /\ last.outcome = "applied"
    /\ last.prev_tick - last.snap_tick = TicksPerSecond * ReplaySeconds
    /\ auth.ticks = TicksPerSecond * ReplaySeconds
    /\ last.snap_tick + auth.ticks = predicted_game_monotonic_tick

\* C32: whenever the client is Active, a snapshot has been applied to the
\* authoritative copy (handled_snap_id is set); in particular a first
\* Snapshot message that is dropped for its missing diff base does not
\* make the client Active.
C32_ActiveHasSnapshot ==
    (game = "Active" /\ ~panicked) => handled_snap_id # None

\* C33: whatever ticks add_snapshot and add_event were called with before
\* the drop, the chunks of one kind handed to the writer thread are not
\* empty and each starts after the last tick of the chunk of that kind
\* handed over before it, so the chunk the writer thread receives next
\* passes its monotonicity checks.
C33_SentChunksDisjoint ==
    /\ \A kind \in {"Snapshots", "Events"} :
          LET sent == SentOf(kind)
          IN  \A i \in 1..Len(sent) :
                 /\ sent[i].ticks # <<>>
                 /\ sent[i].ticks[1] <= LastOf(sent[i].ticks)
                 /\ i > 1 => LastOf(sent[i - 1].ticks) < sent[i].ticks[1]
    /\ (writer_thread.state = "running" /\ recorder.channel # <<>>) =>
          SerializeAndWriteChunk(writer_thread,
                                 Head(recorder.channel)).state = "running"

\* A flush handed over a chunk of snapshots, late and repeated ticks
\* followed, and the drop handed over the rest as a second chunk, which
\* the writer thread wrote after the first.
C33_Witness ==
    /\ recorder.dropped
    /\ Len(SentOf("Snapshots")) = 2
    /\ SentOf("Events") # <<>>
    /\ Len(writer_thread.file) = Len(recorder.sent_chunks)
    /\ writer_thread.state = "running"

\* C34: once the recorder is dropped with an entry recorded, the writer
\* thread, unless a write fails, eventually has written every chunk that
\* was sent, in the order sent, then the tail and the final header, has
\* given the file its name and has ended.
C34_DropDrains ==
    (recorder.dropped /\ recorder.sent_chunks # <<>>)
       ~> \/ writer_thread.state = "failed"
          \/ /\ writer_thread.state = "finished"
             /\ writer_thread.file = recorder.sent_chunks
             /\ writer_thread.header.final
             /\ writer_thread.named

\* The writer thread ended after the drop with two chunks of snapshots
\* and a chunk of events in the file, as they were sent.
C34_Witness ==
    /\ recorder.dropped
    /\ Len(SentOf("Snapshots")) = 2
    /\ SentOf("Events") # <<>>
    /\ writer_thread.state = "finished"
    /\ writer_thread.file = recorder.sent_chunks
    /\ writer_thread.named

DemoSnapshots == UNION {Index("Snapshots")[k] : k \in DOMAIN Index("Snapshots")}

\* C36: after the check_chunks of a frame for the tick of the playback
\* time, if the demo has a snapshot at or before that tick, the earliest
\* resident snapshot is the latest snapshot of the demo at or before the
\* tick, however the time got there.
C36_EarliestIsLatestBefore ==
    [][Render =>
         LET inner == chunk_io'.viewer.inner
             held == {t \in DemoSnapshots :
                        t <= TimeToTick(inner.cur_time)}
         IN  held # {} =>
                /\ inner.cur_snapshots # {}
                /\ SetMin(inner.cur_snapshots) = SetMax(held)]_vars

\* C37: in every frame the snapshot taken as the previous one has a tick
\* at or before the tick of the playback time, which is at or before the
\* tick of the next snapshot when one is resident, and no subtraction of
\* intra_tick_time goes below zero.
C37_PrevAtOrBeforeTick ==
    [][Render =>
         LET inner == chunk_io'.viewer.inner
             monotonic_tick == TimeToTick(inner.cur_time)
             prev_tick == SetMin(inner.cur_snapshots)
             later == inner.cur_snapshots \ {prev_tick}
         IN  inner.cur_snapshots # {} =>
                /\ prev_tick <= monotonic_tick
                /\ later # {} => monotonic_tick <= SetMin(later)
                /\ chunk_io'.viewer.intra_tick_time.outcome = "ok"]_vars

C39_FetchingHasTask ==
    profile.cur_cert = "Fetching" =>
       profile.tasks[profile.notifier] \in {"signing", "fallback"}

\* Every caller that waits on a notifier or awaits a task gets to return.
WaitingCallersReturn ==
    <>[](\A n \in 1..MaxCalls :
            /\ profile.waiting[n] = 0
            /\ profile.woken[n] = 0
            /\ ~profile.joined[n])

\* Whether an arrival is one the queue has to hold: a message that
\* decoded, or a network event other than statistics that arrived at a
\* queue of 200 or more.
Enqueued(a) ==
    /\ a.decoded
    /\ \/ a.entry.kind = "NetworkMsg"
       \/ a.entry.what # "NetworkStats"
       \/ a.len < 200

\* C40: the queue holds, after what it held before, every message that
\* decoded and every network event that arrived, in the order of arrival,
\* but for the network statistics that arrived when it held 200 entries
\* or more; a message that failed to decode is not in it.
C40_QueueHoldsArrivals ==
    game_event_generator.arrived # <<>> =>
       LET before == game_event_generator.arrived[1].len
           kept == SelectSeq(game_event_generator.arrived, Enqueued)
       IN  /\ Len(game_event_generator.events) = before + Len(kept)
           /\ \A i \in 1..Len(kept) :
                 game_event_generator.events[before + i] = kept[i].entry

\* Network statistics arrived at a full queue, a message failed to decode
\* and a message was queued behind 200 entries.
C40_Witness ==
    LET arrived == game_event_generator.arrived
    IN  /\ \E i \in 1..Len(arrived) :
              /\ arrived[i].entry.what = "NetworkStats"
              /\ arrived[i].len >= 200
        /\ \E i \in 1..Len(arrived) : ~arrived[i].decoded
        /\ Len(game_event_generator.events) > 200
        /\ game_event_generator.events[Len(game_event_generator.events)]
              .kind = "NetworkMsg"

====
